---- MODULE Spec2Model ----
(***************************************************************************)
(* Obstacle-stop decision engine of autoware_core                          *)
(* (autoware_motion_velocity_obstacle_stop_module/src/obstacle_stop_module *)
(* .cpp).                                                                  *)
(*                                                                         *)
(* Units.  Distances and arc lengths are integers in 0.1 m, velocities in  *)
(* 0.1 m/s, accelerations in 0.1 m/s^2, times and stamps in ticks of       *)
(* 0.1 s (one planning cycle at 10 Hz).  The code computes in double; the  *)
(* model computes the same expressions over exact rationals and admits    *)
(* only inputs whose quotients are integers (ExactInputs).                 *)
(*                                                                         *)
(* Geometry.  The reference trajectory is a straight line: its front at    *)
(* the absolute position traj.front, at the lateral position traj.y, of    *)
(* length traj.len.  The polygon tests of the obstacle filter are inputs   *)
(* of the cycle: a predicted object carries the outcome of the collision   *)
(* test, a point-cloud point carries its position.                         *)
(***************************************************************************)
EXTENDS Integers, Sequences, FiniteSets, TLC

VARIABLES
    cfg,                               \* parameters read by init()
    clock,                             \* clock_->now(), also the stamp of the inputs
    planner_data,                      \* the input snapshot of the last plan() call
    prev_stop_obstacles_,              \* previous full candidate list
    prev_closest_stop_obstacles_,      \* previous closest-per-classification list
    stop_pointcloud_obstacle_history_, \* point-cloud stop obstacle history
    prev_stop_distance_info_,          \* optional (trajectory, stop distance)
    path_length_buffer_,               \* path-length debounce buffer
    result,                            \* what the last plan() call produced
    pc,                                \* "returned", or "history_pass" while plan() runs;
                                       \* "constructed" before init(), "init_failed" after its throw
    call                               \* the last call of a path_generator utility

vars == <<cfg, clock, planner_data, prev_stop_obstacles_, prev_closest_stop_obstacles_,
          stop_pointcloud_obstacle_history_, prev_stop_distance_info_,
          path_length_buffer_, result, pc, call>>

-----------------------------------------------------------------------------
\* std::optional<T>: a sequence of at most one element.
None == <<>>

Some(x) == <<x>>

HasValue(o) == Len(o) = 1

Value(o) == o[1]

ValueOr(o, d) == IF HasValue(o) THEN o[1] ELSE d

Abs(x) == IF x < 0 THEN -x ELSE x

Max(a, b) == IF a >= b THEN a ELSE b

Min(a, b) == IF a <= b THEN a ELSE b

\* n / d over the rationals, for the inputs on which it is an integer.
IsExact(n, d) == d # 0 /\ (Abs(n) % Abs(d)) = 0

Quot(n, d) == IF (n < 0) = (d < 0) THEN Abs(n) \div Abs(d) ELSE -(Abs(n) \div Abs(d))

\* The elements of a sequence, and a sequence without its i-th element.
Range(s) == {s[i] : i \in 1..Len(s)}

-----------------------------------------------------------------------------
\* Bounds of the model.
MaxClock == 2

MaxHistory == 3

MaxBuffer == 2

-----------------------------------------------------------------------------
\* Parameters.  init() reads them from the node's parameters; the values are
\* those of one configuration, and the specifications vary the fields a claim
\* is about.
BaseConfig ==
    [ suppress_sudden_stop |-> FALSE,
      ignore_crossing_obstacle |-> FALSE,
      use_pointcloud |-> TRUE,
      use_rss_stop |-> TRUE,
      inside_stop_object_types |-> {"UNKNOWN", "CAR", "PEDESTRIAN"},
      outside_stop_object_types |-> {"UNKNOWN", "CAR", "PEDESTRIAN"},
      outside_max_lateral_velocity |-> 50,
      \* stop planning
      stop_margin |-> 22,
      terminal_stop_margin |-> 30,
      min_behavior_stop_margin |-> 10,
      max_negative_velocity |-> -1,
      stop_margin_opposing_traffic |-> 100,
      effective_deceleration_opposing_traffic |-> 40,
      hold_stop_velocity_threshold |-> 1,
      hold_stop_distance_threshold |-> 3,
      obstacle_velocity_threshold_enter_fixed_stop |-> 30,
      obstacle_velocity_threshold_exit_fixed_stop |-> 35,
      enable_approaching_on_curve |-> FALSE,
      min_stop_margin_on_curve |-> 10,
      \* rss
      velocity_offset |-> 0,
      no_wheel_objects_deceleration |-> -8,
      two_wheel_objects_deceleration |-> -8,
      vehicle_objects_deceleration |-> -8,
      \* object-type specific stop parameters
      specific_types |-> {"PEDESTRIAN"},
      sudden_object_acc_threshold |-> -10,
      sudden_object_dist_threshold |-> 1000,
      abandon_to_stop |-> FALSE,
      limit_min_acc |-> -25,
      \* common
      limit_min_accel |-> -25,
      limit_max_accel |-> 10,
      \* obstacle filtering
      max_lat_margin |-> 3,
      stop_obstacle_hold_time_threshold |-> 2,
      crossing_obstacle_traj_angle_threshold |-> 45,
      crossing_obstacle_collision_time_margin |-> 10,
      min_velocity_to_reach_collision_point |-> 20,
      \* vehicle info
      max_longitudinal_offset_m |-> 36,
      min_longitudinal_offset_m |-> -12,
      half_vehicle_width |-> 15,
      ego_possible_max_dist |-> 39,
      \* point cloud
      mask_lat_margin |-> 10,
      \* path length buffer
      update_distance_th |-> 5,
      min_off_duration |-> 2,
      min_on_duration |-> 1,
      \* what init() has created: the buffer, the publishers, the time keeper
      created |-> {"path_length_buffer_", "publishers", "time_keeper_"} ]

-----------------------------------------------------------------------------
\* calc_minimum_distance_to_stop
calc_minimum_distance_to_stop(initial_vel, max_acc, min_acc) ==
    IF initial_vel < 0
    THEN Quot(-(initial_vel * initial_vel), 2 * max_acc)
    ELSE Quot(-(initial_vel * initial_vel), 2 * min_acc)

calc_dist_to_bumper(is_driving_forward, c) ==
    IF is_driving_forward
    THEN Abs(c.max_longitudinal_offset_m)
    ELSE Abs(c.min_longitudinal_offset_m)

braking_acc(obj_label, c) ==
    IF obj_label \in {"UNKNOWN", "PEDESTRIAN"} THEN c.no_wheel_objects_deceleration
    ELSE IF obj_label \in {"BICYCLE", "MOTORCYCLE"} THEN c.two_wheel_objects_deceleration
    ELSE c.vehicle_objects_deceleration

error_considered_vel(lon_vel, c) == Max(lon_vel + c.velocity_offset, 0)

calc_braking_dist(obj_label, lon_vel, c) ==
    Quot(error_considered_vel(lon_vel, c) * error_considered_vel(lon_vel, c),
         2 * (-braking_acc(obj_label, c)))

-----------------------------------------------------------------------------
\* StopObstacle.  braking_dist is the optional member: absent for a fixed
\* stop, present for an RSS stop.
StopObstacle(uuid, stamp, label, velocity, collision_point, dist, braking_dist) ==
    [ uuid |-> uuid, stamp |-> stamp, label |-> label, velocity |-> velocity,
      collision_point |-> collision_point,
      dist_to_collide_on_decimated_traj |-> dist,
      braking_dist |-> braking_dist ]

\* stop_obstacle.dist_to_collide_on_decimated_traj + braking_dist.value_or(0.0)
dist_with_braking(so) == so.dist_to_collide_on_decimated_traj + ValueOr(so.braking_dist, 0)

\* utils::get_obstacle_from_uuid: the first obstacle of the list with the uuid.
RECURSIVE get_obstacle_from_uuid(_, _)
get_obstacle_from_uuid(obstacles, uuid) ==
    IF obstacles = <<>> THEN None
    ELSE IF Head(obstacles).uuid = uuid THEN Some(Head(obstacles))
    ELSE get_obstacle_from_uuid(Tail(obstacles), uuid)

\* a lookup that takes the RSS stops of the previous cycle for its fixed stops
is_prev_object_rss_stop(prev_stop_obstacles, uuid) ==
    LET stop_obstacle_opt == get_obstacle_from_uuid(prev_stop_obstacles, uuid)
    IN  HasValue(stop_obstacle_opt) /\ HasValue(Value(stop_obstacle_opt).braking_dist)

\* a velocity test with the enter threshold alone, without the previous cycle
fixed_stop_without_hysteresis(object, prev_stop_obstacles, c) ==
    object.velocity < c.obstacle_velocity_threshold_enter_fixed_stop

\* a velocity test that takes the thresholds themselves for inside
fixed_stop_with_inclusive_thresholds(object, prev_stop_obstacles, c) ==
    LET stop_obstacle_opt == get_obstacle_from_uuid(prev_stop_obstacles, object.uuid)
    IN  IF HasValue(stop_obstacle_opt) /\ ~HasValue(Value(stop_obstacle_opt).braking_dist)
        THEN ~(c.obstacle_velocity_threshold_exit_fixed_stop <= object.velocity)
        ELSE object.velocity <= c.obstacle_velocity_threshold_enter_fixed_stop

\* ObstacleStopModule::is_obstacle_velocity_requiring_fixed_stop
is_prev_object_requires_fixed_stop(prev_stop_obstacles, uuid) ==
    LET stop_obstacle_opt == get_obstacle_from_uuid(prev_stop_obstacles, uuid)
    IN  HasValue(stop_obstacle_opt) /\ ~HasValue(Value(stop_obstacle_opt).braking_dist)

is_obstacle_velocity_requiring_fixed_stop(object, prev_stop_obstacles, c) ==
    IF is_prev_object_requires_fixed_stop(prev_stop_obstacles, object.uuid)
    THEN ~(c.obstacle_velocity_threshold_exit_fixed_stop < object.velocity)
    ELSE object.velocity < c.obstacle_velocity_threshold_enter_fixed_stop

\* Crossing obstacles.  Angles are in degrees (M_PI is 180).  A predicted
\* path is [confidence, size, collides_until]: `size` poses, one per tick of
\* 0.1 s from the stamp of the object, and the footprint of the object at
\* pose i (i = 0 .. size - 1) collides with the trajectory polygons exactly
\* when i < collides_until.
M_PI == 180

\* constexpr double prediction_resampling_time_horizon = 10.0, in ticks
prediction_resampling_time_horizon == 100

\* calc_time_to_reach_collision_point, in ticks, as <<numerator, denominator>>;
\* the position of the ego on the straight trajectory is traj.front + ego_s
calc_time_to_reach_collision_point(pd, collision_point, dist_to_bumper, min_velocity) ==
    <<10 * (Abs(collision_point.s - (pd.traj.front + pd.ego_s)) - dist_to_bumper),
      Max(min_velocity, Abs(pd.v_ego))>>

\* object_recognition_utils::resamplePredictedPath(path, 0.1, horizon): the
\* poses of the path at every 0.1 s, up to the horizon
resamplePredictedPath(path, time_horizon) ==
    [path EXCEPT !.size = Min(path.size, time_horizon + 1)]

\* resample_highest_confidence_predicted_paths(paths, 0.1, 10.0, 1): the paths
\* sorted by descending confidence, the first one selected, and resampled
\* unless it has fewer than two poses
resample_highest_confidence_predicted_paths(predicted_paths, time_horizon) ==
    IF predicted_paths = <<>> THEN <<>>
    ELSE LET first == CHOOSE i \in 1..Len(predicted_paths) :
                          \A j \in 1..Len(predicted_paths) :
                              \/ predicted_paths[i].confidence > predicted_paths[j].confidence
                              \/ /\ predicted_paths[i].confidence = predicted_paths[j].confidence
                                 /\ i <= j
         IN  IF predicted_paths[first].size < 2 THEN <<>>
             ELSE <<resamplePredictedPath(predicted_paths[first], time_horizon)>>

\* object_recognition_utils::calcInterpolatedPose(path, relative_time): the
\* index of the pose at the relative time, or nothing when the time is not
\* within the path
calcInterpolatedPose(path, relative_time) ==
    IF 0 <= relative_time /\ relative_time <= path.size - 1
    THEN Some(relative_time)
    ELSE None

\* polygon_utils::get_collision_point on the footprint of the object at the
\* pose of the path: TRUE when there is a collision point
future_collision_point(path, pose) == pose < path.collides_until

\* a test that takes a heading at the threshold itself for near 0
is_near_zero_inclusive(diff_angle, c) ==
    /\ -c.crossing_obstacle_traj_angle_threshold <= diff_angle
    /\ diff_angle <= c.crossing_obstacle_traj_angle_threshold

\* ObstacleStopModule::is_crossing_transient_obstacle
is_near_zero(diff_angle, c) ==
    /\ -c.crossing_obstacle_traj_angle_threshold < diff_angle
    /\ diff_angle < c.crossing_obstacle_traj_angle_threshold

is_near_pi(diff_angle, c) ==
    /\ M_PI - c.crossing_obstacle_traj_angle_threshold < Abs(diff_angle)
    /\ Abs(diff_angle) < M_PI + c.crossing_obstacle_traj_angle_threshold

time_to_reach_stop_point(pd, object, dist_to_bumper, c) ==
    LET q == calc_time_to_reach_collision_point(
                 pd, object.collision_point, c.min_behavior_stop_margin + dist_to_bumper,
                 c.min_velocity_to_reach_collision_point)
    IN  Quot(q[1], q[2])

future_obj_pose(path, relative_time) ==
    ValueOr(calcInterpolatedPose(path, relative_time), path.size - 1)

is_crossing_transient_obstacle(pd, object, dist_to_bumper, c) ==
    IF is_near_zero(object.diff_angle, c) \/ is_near_pi(object.diff_angle, c) THEN FALSE
    ELSE IF time_to_reach_stop_point(pd, object, dist_to_bumper, c)
                <= c.crossing_obstacle_collision_time_margin
    THEN FALSE
    ELSE LET resampled_predicted_paths ==
                 resample_highest_confidence_predicted_paths(
                     object.predicted_paths, prediction_resampling_time_horizon)
         IN  IF resampled_predicted_paths = <<>> THEN FALSE
             ELSE ~future_collision_point(
                      resampled_predicted_paths[1],
                      future_obj_pose(resampled_predicted_paths[1],
                                      time_to_reach_stop_point(pd, object, dist_to_bumper, c)
                                          - c.crossing_obstacle_collision_time_margin))

\* a cut-in check that accepts a hull collision behind the front bumper
check_outside_cut_in_ignoring_sign(object, c) ==
    IF Abs(object.lat_vel) > c.outside_max_lateral_velocity THEN None
    ELSE object.hull

\* ObstacleStopModule::check_outside_cut_in_obstacle.  object.hull is the
\* outcome of get_collision_point on the convex hull of the current and the
\* future footprint: nothing, or the collision point and its distance.
check_outside_cut_in_obstacle(object, c) ==
    IF Abs(object.lat_vel) > c.outside_max_lateral_velocity THEN None
    ELSE IF HasValue(object.hull) /\ Value(object.hull).dist < 0 THEN None
    ELSE object.hull

\* ObstacleStopModule::pick_stop_obstacle_from_predicted_object.  object.gate
\* is the outcome of the geometric tests: "far" (lateral distance too large),
\* "none" (no collision point with the object's polygon), "collide"
\* (collision point object.collision_point at the distance object.collision).
\* steps 4.2 and 4.3: the collision point of the inside check, or else of the
\* cut-in check for a label in outside_stop_object_types
collision_point_of(object, c) ==
    IF object.gate = "collide"
    THEN Some([point |-> object.collision_point, dist |-> object.collision])
    ELSE IF object.label \in c.outside_stop_object_types
    THEN check_outside_cut_in_obstacle(object, c)
    ELSE None

\* the object with the collision point that steps 5 and later read
with_collision_point(object, collision_point) ==
    [object EXCEPT !.collision_point = collision_point.point,
                   !.collision = collision_point.dist]

\* steps 5 and later, for an object with a collision point
pick_colliding_object(pd, object, stamp, prev_stop_obstacles, c) ==
    IF c.ignore_crossing_obstacle
            /\ is_crossing_transient_obstacle(
                   pd, object, calc_dist_to_bumper(pd.is_driving_forward, c), c)
    THEN None
    ELSE IF is_obstacle_velocity_requiring_fixed_stop(object, prev_stop_obstacles, c)
    THEN Some(StopObstacle(object.uuid, stamp, object.label, object.velocity,
                           object.collision_point, object.collision, None))
    ELSE IF c.use_rss_stop
    THEN Some(StopObstacle(object.uuid, stamp, object.label, object.velocity,
                           object.collision_point, object.collision,
                           Some(calc_braking_dist(object.label, object.velocity, c))))
    ELSE None

pick_stop_obstacle_from_predicted_object(pd, object, stamp, prev_stop_obstacles, c) ==
    IF object.label \notin c.inside_stop_object_types THEN None
    ELSE IF object.gate = "far" THEN None
    ELSE IF ~HasValue(collision_point_of(object, c)) THEN None
    ELSE pick_colliding_object(
             pd, with_collision_point(object, Value(collision_point_of(object, c))),
             stamp, prev_stop_obstacles, c)

\* a loop body that lets the later of two obstacles at the same distance win
closest_step_last_wins(candidates, stop_obstacle) ==
    LET same == {i \in 1..Len(candidates) : candidates[i].label = stop_obstacle.label}
    IN  IF same = {} THEN Append(candidates, stop_obstacle)
        ELSE LET itr == CHOOSE i \in same : \A j \in same : i <= j
             IN  IF dist_with_braking(stop_obstacle) <= dist_with_braking(candidates[itr])
                 THEN [candidates EXCEPT ![itr] = stop_obstacle]
                 ELSE candidates

\* ObstacleStopModule::get_closest_stop_obstacles: the loop body, then the loop.
closest_step(candidates, stop_obstacle) ==
    LET same == {i \in 1..Len(candidates) : candidates[i].label = stop_obstacle.label}
    IN  IF same = {} THEN Append(candidates, stop_obstacle)
        ELSE LET itr == CHOOSE i \in same : \A j \in same : i <= j
             IN  IF dist_with_braking(stop_obstacle) < dist_with_braking(candidates[itr])
                 THEN [candidates EXCEPT ![itr] = stop_obstacle]
                 ELSE candidates

RECURSIVE closest_loop(_, _)
closest_loop(candidates, stop_obstacles) ==
    IF stop_obstacles = <<>> THEN candidates
    ELSE closest_loop(closest_step(candidates, Head(stop_obstacles)), Tail(stop_obstacles))

get_closest_stop_obstacles(stop_obstacles) == closest_loop(<<>>, stop_obstacles)

\* a "maintain stop" condition without the elapsed time
maintain_stop_without_hold_time(prev_closest_stop_obstacle, object, current_time, c) ==
    object.twist_x < c.obstacle_velocity_threshold_enter_fixed_stop

\* a consistency pass that also re-admits the previous closest obstacles that
\* are no longer among the objects, when they were slow and are recent
check_consistency_readmitting_vanished(current_time, objects, stop_obstacles, prev_closest, c) ==
    stop_obstacles
        \o SelectSeq(prev_closest,
                     LAMBDA p :
                         /\ \A i \in 1..Len(stop_obstacles) : stop_obstacles[i].uuid # p.uuid
                         /\ p.velocity < c.obstacle_velocity_threshold_enter_fixed_stop
                         /\ current_time - p.stamp < c.stop_obstacle_hold_time_threshold)

\* ObstacleStopModule::check_consistency: the loop over the previous closest
\* obstacles; the caller stores get_closest_stop_obstacles of what it returns.
maintain_stop(prev_closest_stop_obstacle, object, current_time, c) ==
    /\ object.twist_x < c.obstacle_velocity_threshold_enter_fixed_stop
    /\ current_time - prev_closest_stop_obstacle.stamp < c.stop_obstacle_hold_time_threshold

\* a consistency pass that re-admits an obstacle with the stamp of the
\* current cycle
RECURSIVE check_consistency_refreshing_stamp(_, _, _, _, _)
check_consistency_refreshing_stamp(current_time, objects, stop_obstacles, prev_closest, c) ==
    IF prev_closest = <<>> THEN stop_obstacles
    ELSE LET p == Head(prev_closest)
             found == {i \in 1..Len(objects) : objects[i].uuid = p.uuid}
             next ==
                 IF found = {} THEN stop_obstacles
                 ELSE LET object_itr == CHOOSE i \in found : \A j \in found : i <= j
                      IN  IF /\ \A i \in 1..Len(stop_obstacles) : stop_obstacles[i].uuid # p.uuid
                             /\ maintain_stop(p, objects[object_itr], current_time, c)
                          THEN Append(stop_obstacles, [p EXCEPT !.stamp = current_time])
                          ELSE stop_obstacles
         IN  check_consistency_refreshing_stamp(current_time, objects, next,
                                                Tail(prev_closest), c)

RECURSIVE check_consistency(_, _, _, _, _)
check_consistency(current_time, objects, stop_obstacles, prev_closest, c) ==
    IF prev_closest = <<>> THEN stop_obstacles
    ELSE LET p == Head(prev_closest)
             found == {i \in 1..Len(objects) : objects[i].uuid = p.uuid}
             is_disappeared_from_stop_obstacle ==
                 \A i \in 1..Len(stop_obstacles) : stop_obstacles[i].uuid # p.uuid
             next ==
                 IF found = {} THEN stop_obstacles
                 ELSE LET object_itr == CHOOSE i \in found : \A j \in found : i <= j
                      IN  IF /\ is_disappeared_from_stop_obstacle
                             /\ maintain_stop(p, objects[object_itr], current_time, c)
                          THEN Append(stop_obstacles, p)
                          ELSE stop_obstacles
         IN  check_consistency(current_time, objects, next, Tail(prev_closest), c)

\* ObstacleStopModule::filter_stop_obstacle_for_predicted_object: the loop over
\* the objects (every object reads the member prev_stop_obstacles_, written
\* after the loop), then the consistency pass.
RECURSIVE pick_loop(_, _, _, _, _, _)
pick_loop(pd, objects, stamp, prev_stop_obstacles, acc, c) ==
    IF objects = <<>> THEN acc
    ELSE LET object == Head(objects)
             picked == IF object.lon_dist_from_ego < 0 THEN None
                       ELSE pick_stop_obstacle_from_predicted_object(
                                pd, object, stamp, prev_stop_obstacles, c)
         IN  pick_loop(pd, Tail(objects), stamp, prev_stop_obstacles,
                       IF HasValue(picked) THEN Append(acc, Value(picked)) ELSE acc, c)

\* a filter that overwrites the previous closest list with this cycle's
\* candidates before the consistency pass reads it
filter_overwriting_prev_closest(pd, objects, stamp, prev_stop_obstacles, prev_closest, c) ==
    LET picked == pick_loop(pd, objects, stamp, prev_stop_obstacles, <<>>, c)
    IN  check_consistency(stamp, objects, picked, get_closest_stop_obstacles(picked), c)

filter_stop_obstacle_for_predicted_object(pd, objects, stamp, prev_stop_obstacles, prev_closest, c) ==
    check_consistency(stamp, objects,
                      pick_loop(pd, objects, stamp, prev_stop_obstacles, <<>>, c),
                      prev_closest, c)

-----------------------------------------------------------------------------
\* Point cloud.  A point of the cloud is [s, y]: its absolute longitudinal and
\* lateral position; every cluster of the model holds one point.

\* to_hex_string of the default-constructed UUID
PointCloudUuid == "00000000000000000000000000000000"

\* motion_utils::calcLateralOffset(traj_points, point), for the straight line
calcLateralOffset(traj, point) == point.y - traj.y

\* utils::get_dist_to_traj_poly: distance of the point to the footprint
\* polygons (no lateral margin) of the straight trajectory
get_dist_to_traj_poly(traj, point, c) ==
    Max(0, Abs(calcLateralOffset(traj, point)) - c.half_vehicle_width)

\* the rough and the precise lateral test, shared by the conversion of the
\* cloud and by the pass over the history: TRUE when the point is kept
within_lat_margin_rough(traj, point, c) ==
    ~(Abs(calcLateralOffset(traj, point)) - c.ego_possible_max_dist >= c.max_lat_margin)

within_lat_margin_precise(traj, point, c) ==
    ~(get_dist_to_traj_poly(traj, point, c) >= c.max_lat_margin)

\* absolute position of the front of the decimated trajectory (cut at the
\* ego segment)
decimated_front(pd) == pd.traj.front + pd.ego_seg_s

\* calcSignedArcLength(decimated_traj_points, 0, point) - dist_to_bumper
dist_to_collide_on_traj(pd, point, dist_to_bumper) ==
    (point.s - decimated_front(pd)) - dist_to_bumper

\* ObstacleStopModule::convert_point_cloud_to_stop_points
convert_point_cloud_to_stop_points(pd, c) ==
    SelectSeq(pd.pointcloud,
              LAMBDA point :
                  /\ within_lat_margin_rough(pd.traj, point, c)
                  /\ within_lat_margin_precise(pd.traj, point, c)
                  /\ ~(point.s - decimated_front(pd) < 0))

\* ObstacleStopModule::create_stop_obstacle_for_point_cloud
create_stop_obstacle_for_point_cloud(pd, stamp, stop_point, dist_to_bumper) ==
    StopObstacle(PointCloudUuid, stamp, "UNKNOWN", 0, stop_point,
                 dist_to_collide_on_traj(pd, stop_point, dist_to_bumper), None)

\* The pass over stop_pointcloud_obstacle_history_ (the for loop without an
\* increment clause).  An iteration either erases the entry (erase returns
\* the next iterator), or outputs it and increments, or -- on a failed
\* lateral test -- continues with the iterator where it was.  In the last
\* case the next iteration finds the same entry, the same clock and the same
\* trajectory: the loop repeats that iteration for ever.
\* an age test that is strict
history_is_older(itr, odom_time, c) ==
    odom_time - itr.stamp > c.stop_obstacle_hold_time_threshold

\* history_is_old: elapsed_time >= stop_obstacle_hold_time_threshold
history_is_old(itr, odom_time, c) ==
    odom_time - itr.stamp >= c.stop_obstacle_hold_time_threshold

\* what the iteration does with the entry: "erase", "continue" or "output"
history_visit(itr, pd, odom_time, c) ==
    IF history_is_old(itr, odom_time, c) THEN "erase"
    ELSE IF ~within_lat_margin_rough(pd.traj, itr.collision_point, c) THEN "continue"
    ELSE IF ~within_lat_margin_precise(pd.traj, itr.collision_point, c) THEN "continue"
    ELSE "output"

\* [history: the list as the loop leaves it, past: past_stop_obstacles,
\*  visits: iterations begun, done: the iterator reached end()] after the
\* loop has run from position i, at most `fuel` further iterations.
RECURSIVE history_pass(_, _, _, _, _, _, _, _)
history_pass(history, i, past, visits, fuel, pd, dist_to_bumper, c) ==
    IF i > Len(history) THEN [history |-> history, past |-> past, visits |-> visits, done |-> TRUE]
    ELSE IF fuel = 0 THEN [history |-> history, past |-> past, visits |-> visits, done |-> FALSE]
    ELSE LET itr == history[i]
             what == history_visit(itr, pd, pd.stamp, c)
         IN  IF what = "erase"
             THEN history_pass(SubSeq(history, 1, i - 1) \o SubSeq(history, i + 1, Len(history)),
                               i, past, visits + 1, fuel - 1, pd, dist_to_bumper, c)
             ELSE IF what = "continue"
             THEN history_pass(history, i, past, visits + 1, fuel - 1, pd, dist_to_bumper, c)
             ELSE history_pass(history, i + 1,
                               Append(past, [itr EXCEPT !.dist_to_collide_on_decimated_traj =
                                   dist_to_collide_on_traj(pd, itr.collision_point, dist_to_bumper)]),
                               visits + 1, fuel - 1, pd, dist_to_bumper, c)

\* ObstacleStopModule::filter_stop_obstacle_for_point_cloud: the obstacles of
\* this cycle's cloud
current_point_cloud_obstacles(pd, dist_to_bumper, c) ==
    LET stop_points == convert_point_cloud_to_stop_points(pd, c)
    IN  [i \in 1..Len(stop_points) |->
            create_stop_obstacle_for_point_cloud(pd, pd.stamp, stop_points[i], dist_to_bumper)]

-----------------------------------------------------------------------------
\* Stop margin.

\* ObstacleStopModule::calc_desired_stop_margin, the oncoming branch, over the
\* rationals with the denominators cleared (a_ego > 0):
\*   T_coast = max(N / rel_vel, 0),  N = d - ego_stop_margin - v^2/(2a) + |v_obs v / a|
\*   stop_margin = d - (v_ego T_coast + v^2/(2a))
\* coast_numerator is 2 a N.
coast_numerator(v_ego, v_obs, d, c) ==
    2 * c.effective_deceleration_opposing_traffic * (d - c.stop_margin_opposing_traffic)
        - v_ego * v_ego + 2 * Abs(v_obs * v_ego)

\* T_coast > 0, i.e. N / rel_vel > 0
is_coasting(v_ego, v_obs, d, c) ==
    \/ coast_numerator(v_ego, v_obs, d, c) > 0 /\ v_ego - v_obs > 0
    \/ coast_numerator(v_ego, v_obs, d, c) < 0 /\ v_ego - v_obs < 0

\* an oncoming margin that forgets the braking distance of the ego when it
\* does not coast
oncoming_stop_margin_without_braking(v_ego, v_obs, d, c) ==
    IF is_coasting(v_ego, v_obs, d, c)
    THEN LET rel_vel == v_ego - v_obs
             num == 2 * c.effective_deceleration_opposing_traffic * rel_vel * d
                        - v_ego * coast_numerator(v_ego, v_obs, d, c)
                        - v_ego * v_ego * rel_vel
             den == 2 * c.effective_deceleration_opposing_traffic * rel_vel
         IN  IF den > 0 THEN <<num, den>> ELSE <<-num, -den>>
    ELSE <<d, 1>>

\* the oncoming stop margin as <<numerator, denominator>>, denominator > 0
oncoming_stop_margin(v_ego, v_obs, d, c) ==
    LET a_ego == c.effective_deceleration_opposing_traffic
        rel_vel == v_ego - v_obs
    IN  IF is_coasting(v_ego, v_obs, d, c)
        THEN LET num == 2 * a_ego * rel_vel * d
                            - v_ego * coast_numerator(v_ego, v_obs, d, c)
                            - v_ego * v_ego * rel_vel
                 den == 2 * a_ego * rel_vel
             IN  IF den > 0 THEN <<num, den>> ELSE <<-num, -den>>
        ELSE <<2 * a_ego * d - v_ego * v_ego, 2 * a_ego>>

\* a default stop margin that looks at the end of the trajectory first
default_stop_margin_terminal_first(v_ego, stop_obstacle, dist_to_collide_on_ref_traj, ref_traj_length, c) ==
    IF dist_to_collide_on_ref_traj > ref_traj_length
    THEN <<c.terminal_stop_margin, 1>>
    ELSE IF stop_obstacle.velocity < c.max_negative_velocity
    THEN IF Abs(v_ego - stop_obstacle.velocity) <= 0
         THEN <<c.stop_margin, 1>>
         ELSE oncoming_stop_margin(v_ego, stop_obstacle.velocity,
                                   stop_obstacle.dist_to_collide_on_decimated_traj, c)
    ELSE <<c.stop_margin, 1>>

\* the default stop margin (the lambda of calc_desired_stop_margin) as
\* <<numerator, denominator>>; epsilon = 1e-6 is below the model's resolution
default_stop_margin_ratio(v_ego, stop_obstacle, dist_to_collide_on_ref_traj, ref_traj_length, c) ==
    IF stop_obstacle.velocity < c.max_negative_velocity
    THEN IF Abs(v_ego - stop_obstacle.velocity) <= 0
         THEN <<c.stop_margin, 1>>
         ELSE oncoming_stop_margin(v_ego, stop_obstacle.velocity,
                                   stop_obstacle.dist_to_collide_on_decimated_traj, c)
    ELSE IF dist_to_collide_on_ref_traj > ref_traj_length
    THEN <<c.terminal_stop_margin, 1>>
    ELSE <<c.stop_margin, 1>>

default_stop_margin(v_ego, stop_obstacle, dist_to_collide_on_ref_traj, ref_traj_length, c) ==
    LET q == default_stop_margin_ratio(v_ego, stop_obstacle, dist_to_collide_on_ref_traj,
                                       ref_traj_length, c)
    IN  Quot(q[1], q[2])

\* ObstacleStopModule::calc_margin_from_obstacle_on_curve.  pd.curve is the
\* outcome of the geometry: collision_idx (optional index on the resampled
\* short trajectory) and short_margin_from_obstacle.
calc_margin_from_obstacle_on_curve(pd, margin, c) ==
    IF ~c.enable_approaching_on_curve \/ c.use_pointcloud THEN margin
    ELSE IF ~HasValue(pd.curve.collision_idx) THEN c.min_stop_margin_on_curve
    ELSE IF Value(pd.curve.collision_idx) = 0 THEN margin
    ELSE Min(margin, Max(c.min_stop_margin_on_curve, pd.curve.short_margin_from_obstacle))

\* ObstacleStopModule::calc_desired_stop_margin
calc_desired_stop_margin(pd, stop_obstacle, dist_to_collide_on_ref_traj, c) ==
    LET stop_margin_on_curve ==
            calc_margin_from_obstacle_on_curve(pd,
                default_stop_margin(pd.v_ego, stop_obstacle, dist_to_collide_on_ref_traj,
                                    pd.traj.len, c), c)
        closest_behavior_stop == pd.traj.behavior_stop
    IN  IF HasValue(closest_behavior_stop)
        THEN LET stop_dist_diff == Value(closest_behavior_stop)
                                   - (dist_to_collide_on_ref_traj - stop_margin_on_curve)
             IN  IF 0 < stop_dist_diff /\ stop_dist_diff < stop_margin_on_curve
                 THEN c.min_behavior_stop_margin
                 ELSE stop_margin_on_curve
        ELSE stop_margin_on_curve

\* StopPlanningParam::get_param_type: "default" unless the label has its own
\* parameter set
get_param_type(label, c) == IF label \in c.specific_types THEN label ELSE "default"

\* the lambda acceptable_stop_acc of calc_candidate_zero_vel_dist
distance_to_judge_suddenness(pd, c) ==
    Min(calc_minimum_distance_to_stop(pd.v_ego, c.limit_max_accel, c.sudden_object_acc_threshold),
        c.sudden_object_dist_threshold)

\* an acceptable deceleration that gives up on every sudden obstacle, whether
\* abandon_to_stop is set or not
acceptable_stop_acc_abandoning(pd, stop_obstacle, candidate_zero_vel_dist, c) ==
    IF get_param_type(stop_obstacle.label, c) = "default" THEN Some(c.limit_min_accel)
    ELSE IF candidate_zero_vel_dist > distance_to_judge_suddenness(pd, c)
    THEN Some(c.limit_min_accel)
    ELSE None

acceptable_stop_acc(pd, stop_obstacle, candidate_zero_vel_dist, c) ==
    IF get_param_type(stop_obstacle.label, c) = "default" THEN Some(c.limit_min_accel)
    ELSE IF candidate_zero_vel_dist > distance_to_judge_suddenness(pd, c)
    THEN Some(c.limit_min_accel)
    ELSE IF c.abandon_to_stop THEN None
    ELSE Some(c.limit_min_acc)

\* a stop position measured from the front of the trajectory, not from the ego
stop_pos_from_front(pd, acc, c) ==
    calc_minimum_distance_to_stop(pd.v_ego, c.limit_max_accel, acc)

\* acceptable_stop_pos of calc_candidate_zero_vel_dist
acceptable_stop_pos(pd, acc, c) ==
    pd.ego_s + calc_minimum_distance_to_stop(pd.v_ego, c.limit_max_accel, acc)

\* a candidate distance without the floor at 0
candidate_without_floor(pd, stop_obstacle, dist_to_collide_on_ref_traj, desired_stop_margin, c) ==
    Some(dist_to_collide_on_ref_traj - desired_stop_margin)

\* ObstacleStopModule::calc_candidate_zero_vel_dist
calc_candidate_zero_vel_dist(pd, stop_obstacle, dist_to_collide_on_ref_traj, desired_stop_margin, c) ==
    LET candidate_zero_vel_dist == Max(0, dist_to_collide_on_ref_traj - desired_stop_margin)
    IN  IF c.suppress_sudden_stop
        THEN LET acc == acceptable_stop_acc(pd, stop_obstacle, candidate_zero_vel_dist, c)
             IN  IF ~HasValue(acc) THEN None
                 ELSE IF acceptable_stop_pos(pd, Value(acc), c) > candidate_zero_vel_dist
                 THEN Some(acceptable_stop_pos(pd, Value(acc), c))
                 ELSE Some(candidate_zero_vel_dist)
        ELSE Some(candidate_zero_vel_dist)

-----------------------------------------------------------------------------
\* Stop point decision.

\* A point of the straight trajectory at arc length d from its front.
point_on_traj(traj, d) == [s |-> traj.front + d, y |-> traj.y]

\* calcSignedArcLength(traj_points, 0, point)
calcSignedArcLength(traj, point) == point.s - traj.front

\* a condition that also skips a candidate of another label at the distance
\* of the determined obstacle
skips_candidate_on_tie(stop_obstacle, candidate_zero_vel_dist, determined) ==
    \/ /\ stop_obstacle.label = determined.stop_obstacle.label
       /\ stop_obstacle.dist_to_collide_on_decimated_traj
              + stop_obstacle.dist_to_collide_on_decimated_traj
          > dist_with_braking(determined.stop_obstacle)
    \/ /\ stop_obstacle.label # determined.stop_obstacle.label
       /\ candidate_zero_vel_dist >= determined.zero_vel_dist

\* the condition under which the selection loop of plan_stop skips a
\* candidate, given the obstacle determined so far
skips_candidate(stop_obstacle, candidate_zero_vel_dist, determined) ==
    LET is_same_param_types == stop_obstacle.label = determined.stop_obstacle.label
    IN  \/ /\ is_same_param_types
           /\ stop_obstacle.dist_to_collide_on_decimated_traj
                  + stop_obstacle.dist_to_collide_on_decimated_traj
              > dist_with_braking(determined.stop_obstacle)
        \/ /\ ~is_same_param_types
           /\ candidate_zero_vel_dist > determined.zero_vel_dist

\* dist_to_collide_on_ref_traj of the selection loop
dist_to_collide_on_ref_traj(pd, stop_obstacle) ==
    pd.ego_seg_s + stop_obstacle.dist_to_collide_on_decimated_traj
        + ValueOr(stop_obstacle.braking_dist, 0)

\* the selection loop of plan_stop: `determined` is the optional triple
\* (determined_stop_obstacle, determined_zero_vel_dist,
\* determined_desired_stop_margin)
RECURSIVE select_loop(_, _, _, _)
select_loop(closest_stop_obstacles, determined, pd, c) ==
    IF closest_stop_obstacles = <<>> THEN determined
    ELSE LET stop_obstacle == Head(closest_stop_obstacles)
             on_ref == dist_to_collide_on_ref_traj(pd, stop_obstacle)
             desired_stop_margin == calc_desired_stop_margin(pd, stop_obstacle, on_ref, c)
             candidate == calc_candidate_zero_vel_dist(pd, stop_obstacle, on_ref,
                                                       desired_stop_margin, c)
             next ==
                 IF ~HasValue(candidate) THEN determined
                 ELSE IF HasValue(determined)
                         /\ skips_candidate(stop_obstacle, Value(candidate), Value(determined))
                 THEN determined
                 ELSE Some([stop_obstacle |-> stop_obstacle,
                            zero_vel_dist |-> Value(candidate),
                            desired_stop_margin |-> desired_stop_margin])
         IN  select_loop(Tail(closest_stop_obstacles), next, pd, c)

\* a hold that does not look at the ego speed
hold_previous_stop_at_any_speed(pd, prev_stop_distance_info, determined_zero_vel_dist, c) ==
    IF HasValue(prev_stop_distance_info)
    THEN LET prev_zero_vel_dist ==
                 Value(prev_stop_distance_info).zero_vel_dist
                     - (pd.traj.front - Value(prev_stop_distance_info).traj_front)
         IN  IF Abs(prev_zero_vel_dist - determined_zero_vel_dist)
                    < c.hold_stop_distance_threshold
             THEN prev_zero_vel_dist
             ELSE determined_zero_vel_dist
    ELSE determined_zero_vel_dist

\* ObstacleStopModule::hold_previous_stop_if_necessary: the value left in
\* determined_zero_vel_dist
hold_previous_stop_if_necessary(pd, prev_stop_distance_info, determined_zero_vel_dist, c) ==
    IF Abs(pd.v_ego) < c.hold_stop_velocity_threshold /\ HasValue(prev_stop_distance_info)
    THEN LET diff_dist_front_points ==
                 pd.traj.front - Value(prev_stop_distance_info).traj_front
             prev_zero_vel_dist ==
                 Value(prev_stop_distance_info).zero_vel_dist - diff_dist_front_points
         IN  IF Abs(prev_zero_vel_dist - determined_zero_vel_dist)
                    < c.hold_stop_distance_threshold
             THEN prev_zero_vel_dist
             ELSE determined_zero_vel_dist
    ELSE determined_zero_vel_dist

\* motion_utils::insertStopPoint(0, distance, points): the arc length of the
\* inserted point, or nothing when the distance is not on the trajectory
insertStopPoint(traj, distance) ==
    IF 0 <= distance /\ distance <= traj.len THEN Some(distance) ELSE None

\* ObstacleStopModule::calc_stop_point: the stop point, and
\* prev_stop_distance_info_ as the call leaves it
calc_stop_point(pd, prev_stop_distance_info, determined_zero_vel_dist) ==
    LET zero_vel_idx == insertStopPoint(pd.traj, determined_zero_vel_dist)
    IN  IF ~HasValue(zero_vel_idx)
        THEN [stop_point |-> None, prev_stop_distance_info |-> prev_stop_distance_info]
        ELSE [stop_point |-> Some(point_on_traj(pd.traj, Value(zero_vel_idx))),
              prev_stop_distance_info |->
                  Some([traj_front |-> pd.traj.front,
                        zero_vel_dist |-> determined_zero_vel_dist])]

\* PathLengthBuffer.  An item is a stop point with the time it entered the
\* buffer, the time it was last fed and whether it is active.
\* PathLengthBuffer::update_buffer
buffer_keep(buffer, now, c) ==
    SelectSeq(buffer, LAMBDA item : now - item.last_time < c.min_off_duration)

buffer_feed(buffer, stop_point, traj, now, c) ==
    IF ~HasValue(stop_point) THEN buffer
    ELSE LET d == calcSignedArcLength(traj, Value(stop_point))
             near == {i \in 1..Len(buffer) :
                         Abs(calcSignedArcLength(traj, buffer[i].stop_point) - d)
                             < c.update_distance_th}
         IN  IF near # {}
             THEN [i \in 1..Len(buffer) |->
                      IF i \in near THEN [buffer[i] EXCEPT !.last_time = now] ELSE buffer[i]]
             ELSE IF Len(buffer) < MaxBuffer
             THEN Append(buffer, [stop_point |-> Value(stop_point), start_time |-> now,
                                  last_time |-> now, is_active |-> FALSE])
             ELSE buffer

buffer_activate(buffer, now, c) ==
    [i \in 1..Len(buffer) |->
        IF now - buffer[i].start_time >= c.min_on_duration
        THEN [buffer[i] EXCEPT !.is_active = TRUE]
        ELSE buffer[i]]

update_buffer(buffer, stop_point, traj, now, c) ==
    buffer_activate(buffer_feed(buffer_keep(buffer, now, c), stop_point, traj, now, c), now, c)

\* PathLengthBuffer::get_nearest_active_item: the stop point of the active
\* item nearest along the path
get_nearest_active_item(buffer) ==
    LET active == {i \in 1..Len(buffer) : buffer[i].is_active}
    IN  IF active = {} THEN None
        ELSE LET i == CHOOSE k \in active :
                          \A j \in active :
                              \/ buffer[k].stop_point.s < buffer[j].stop_point.s
                              \/ buffer[k].stop_point.s = buffer[j].stop_point.s /\ k <= j
             IN  Some(buffer[i].stop_point)

\* a no-stop return that also empties the buffer
no_stop_resetting_buffer(path_length_buffer, stop_obstacles) ==
    [ stop_point |-> None,
      prev_stop_distance_info |-> None,
      path_length_buffer |-> <<>>,
      stop_obstacles |-> stop_obstacles,
      determined |-> None,
      default_stop_margin |-> None,
      held_zero_vel_dist |-> None,
      fed_buffer |-> FALSE ]

\* the test as the oncoming special case would have it
returns_directly_when_oncoming(stop_obstacle, c) ==
    stop_obstacle.velocity < c.max_negative_velocity

\* ObstacleStopModule::plan_stop: the value returned and the members as the
\* call leaves them; `determined`, `held_zero_vel_dist` and `fed_buffer`
\* record the locals of the call.
no_stop(path_length_buffer, stop_obstacles) ==
    [ stop_point |-> None,
      prev_stop_distance_info |-> None,
      path_length_buffer |-> path_length_buffer,
      stop_obstacles |-> stop_obstacles,
      determined |-> None,
      default_stop_margin |-> None,
      held_zero_vel_dist |-> None,
      fed_buffer |-> FALSE ]

\* the test of plan_stop that returns the stop point of this cycle directly
returns_stop_point_directly(stop_obstacle, c) ==
    stop_obstacle.velocity >= c.max_negative_velocity

\* the tail of plan_stop once the stop point is inserted: the branch on the
\* determined obstacle's velocity, and the path-length buffer
plan_stop_return(pd, stop_obstacles, determined, held, sp, path_length_buffer, updated, c) ==
    [ stop_point |-> IF returns_stop_point_directly(determined.stop_obstacle, c)
                     THEN sp.stop_point
                     ELSE get_nearest_active_item(updated),
      prev_stop_distance_info |-> sp.prev_stop_distance_info,
      path_length_buffer |-> IF returns_stop_point_directly(determined.stop_obstacle, c)
                             THEN path_length_buffer
                             ELSE updated,
      stop_obstacles |-> stop_obstacles,
      determined |-> Some(determined),
      default_stop_margin |->
          Some(default_stop_margin_ratio(
                   pd.v_ego, determined.stop_obstacle,
                   dist_to_collide_on_ref_traj(pd, determined.stop_obstacle), pd.traj.len, c)),
      held_zero_vel_dist |-> Some(held),
      fed_buffer |-> ~returns_stop_point_directly(determined.stop_obstacle, c) ]

plan_stop_insert(pd, stop_obstacles, determined, held, sp, path_length_buffer, now, c) ==
    plan_stop_return(pd, stop_obstacles, determined, held, sp, path_length_buffer,
                     update_buffer(path_length_buffer, sp.stop_point, pd.traj, now, c), c)

\* a plan_stop that records the newly determined distance, not the one it
\* inserted
plan_stop_recording_determined(pd, stop_obstacles, determined, held, prev_stop_distance_info, path_length_buffer, now, c) ==
    LET sp == calc_stop_point(pd, prev_stop_distance_info, held)
    IN  plan_stop_insert(pd, stop_obstacles, determined, held,
                         IF HasValue(sp.stop_point)
                         THEN [sp EXCEPT !.prev_stop_distance_info =
                                  Some([traj_front |-> pd.traj.front,
                                        zero_vel_dist |-> determined.zero_vel_dist])]
                         ELSE sp,
                         path_length_buffer, now, c)

plan_stop_hold(pd, stop_obstacles, determined, held, prev_stop_distance_info, path_length_buffer, now, c) ==
    plan_stop_insert(pd, stop_obstacles, determined, held,
                     calc_stop_point(pd, prev_stop_distance_info, held),
                     path_length_buffer, now, c)

plan_stop_determined(pd, stop_obstacles, determined, prev_stop_distance_info, path_length_buffer, now, c) ==
    IF ~HasValue(determined) THEN no_stop(path_length_buffer, stop_obstacles)
    ELSE plan_stop_hold(pd, stop_obstacles, Value(determined),
                        hold_previous_stop_if_necessary(
                            pd, prev_stop_distance_info, Value(determined).zero_vel_dist, c),
                        prev_stop_distance_info, path_length_buffer, now, c)

plan_stop(pd, stop_obstacles, prev_stop_distance_info, path_length_buffer, now, c) ==
    IF stop_obstacles = <<>> THEN no_stop(path_length_buffer, stop_obstacles)
    ELSE plan_stop_determined(pd, stop_obstacles,
                              select_loop(get_closest_stop_obstacles(stop_obstacles), None, pd, c),
                              prev_stop_distance_info, path_length_buffer, now, c)

-----------------------------------------------------------------------------
\* ObstacleStopModule::plan

\* the inputs on which every quotient of the cycle is an integer
exact_minimum_distance(pd, c) ==
    c.suppress_sudden_stop =>
        \A acc \in {c.limit_min_accel, c.limit_min_acc, c.sudden_object_acc_threshold,
                    c.limit_max_accel} :
            IsExact(pd.v_ego * pd.v_ego, 2 * acc)

exact_time_to_reach(pd, c) ==
    c.ignore_crossing_obstacle =>
        \A i \in 1..Len(pd.objects) :
            \A collision_point \in {pd.objects[i].collision_point}
                    \cup {Value(pd.objects[i].hull).point : k \in 1..Len(pd.objects[i].hull)} :
                LET q == calc_time_to_reach_collision_point(
                             pd, collision_point,
                             c.min_behavior_stop_margin
                                 + calc_dist_to_bumper(pd.is_driving_forward, c),
                             c.min_velocity_to_reach_collision_point)
                IN  IsExact(q[1], q[2])

exact_braking_dist(pd, c) ==
    \A i \in 1..Len(pd.objects) :
        IsExact(error_considered_vel(pd.objects[i].velocity, c)
                    * error_considered_vel(pd.objects[i].velocity, c),
                2 * braking_acc(pd.objects[i].label, c))

exact_stop_margin(pd, stop_obstacles, c) ==
    \A so \in Range(stop_obstacles) :
        LET q == default_stop_margin_ratio(pd.v_ego, so, dist_to_collide_on_ref_traj(pd, so),
                                           pd.traj.len, c)
        IN  IsExact(q[1], q[2])

\* for every object of the cycle, in the order of the input: "fixed" or
\* "not_fixed" as is_obstacle_velocity_requiring_fixed_stop answered, or
\* "unevaluated" when the object did not reach the velocity test
reaches_velocity_test(pd, object, c) ==
    /\ ~(object.lon_dist_from_ego < 0)
    /\ object.label \in c.inside_stop_object_types
    /\ object.gate # "far"
    /\ HasValue(collision_point_of(object, c))
    /\ ~(c.ignore_crossing_obstacle
           /\ is_crossing_transient_obstacle(
                  pd, with_collision_point(object, Value(collision_point_of(object, c))),
                  calc_dist_to_bumper(pd.is_driving_forward, c), c))

fixed_stop_decisions(pd, prev_stop_obstacles, c) ==
    [i \in 1..Len(pd.objects) |->
        IF ~reaches_velocity_test(pd, pd.objects[i], c) THEN "unevaluated"
        ELSE IF is_obstacle_velocity_requiring_fixed_stop(pd.objects[i], prev_stop_obstacles, c)
        THEN "fixed"
        ELSE "not_fixed"]

\* One call of plan() at time clock + dt on the snapshot pd_in.  The call
\* filters the predicted objects (writing the two previous lists), then the
\* point cloud; when the pass over the history does not reach its end the
\* call stays in it (pc = "history_pass"); otherwise it plans the stop.
\* plan_return: steps 6 to 8 of plan()
plan_return(pd, stop_obstacles, planned, pass) ==
    /\ pc' = "returned"
    /\ prev_stop_distance_info_' = planned.prev_stop_distance_info
    /\ path_length_buffer_' = planned.path_length_buffer
    /\ result' = [ stop_point |-> planned.stop_point,
                   stop_obstacles |-> stop_obstacles,
                   determined |-> planned.determined,
                   default_stop_margin |-> planned.default_stop_margin,
                   held_zero_vel_dist |-> planned.held_zero_vel_dist,
                   fed_buffer |-> planned.fed_buffer,
                   fixed_stop |-> fixed_stop_decisions(pd, prev_stop_obstacles_, cfg),
                   visits |-> IF cfg.use_pointcloud THEN pass.visits ELSE 0,
                   history_at_entry |-> Len(stop_pointcloud_obstacle_history_) ]

\* plan_concat: step 5 of plan(), and the call of plan_stop
plan_concat(pd, stop_obstacles, pass) ==
    /\ exact_stop_margin(pd, get_closest_stop_obstacles(stop_obstacles), cfg)
    /\ plan_return(pd, stop_obstacles,
                   plan_stop(pd, stop_obstacles, prev_stop_distance_info_,
                             path_length_buffer_, pd.stamp, cfg),
                   pass)

\* plan_filter: steps 3 and 4 of plan()
plan_filter(pd, for_predicted_object, current, pass) ==
    /\ cfg.use_pointcloud /\ pass.done => Len(pass.history) + Len(current) <= MaxHistory
    /\ exact_minimum_distance(pd, cfg)
    /\ exact_braking_dist(pd, cfg)
    /\ exact_time_to_reach(pd, cfg)
    /\ clock' = pd.stamp
    /\ planner_data' = pd
    /\ prev_stop_obstacles_' = for_predicted_object
    /\ prev_closest_stop_obstacles_' = get_closest_stop_obstacles(for_predicted_object)
    /\ UNCHANGED <<cfg, call>>
    /\ IF cfg.use_pointcloud /\ ~pass.done
       THEN /\ pc' = "history_pass"
            /\ stop_pointcloud_obstacle_history_' = pass.history
            /\ result' = [result EXCEPT !.visits = pass.visits,
                                        !.history_at_entry =
                                            Len(stop_pointcloud_obstacle_history_)]
            /\ UNCHANGED <<prev_stop_distance_info_, path_length_buffer_>>
       ELSE /\ stop_pointcloud_obstacle_history_' =
                   IF cfg.use_pointcloud THEN pass.history \o current
                   ELSE stop_pointcloud_obstacle_history_
            /\ plan_concat(pd,
                           for_predicted_object
                               \o (IF cfg.use_pointcloud THEN current \o pass.past ELSE <<>>),
                           pass)

plan_cycle(pd, dist_to_bumper) ==
    plan_filter(pd,
                filter_stop_obstacle_for_predicted_object(
                    pd, pd.objects, pd.stamp, prev_stop_obstacles_, prev_closest_stop_obstacles_, cfg),
                current_point_cloud_obstacles(pd, dist_to_bumper, cfg),
                history_pass(stop_pointcloud_obstacle_history_, 1, <<>>, 0,
                             Len(stop_pointcloud_obstacle_history_), pd, dist_to_bumper, cfg))

plan(pd_in, dt) ==
    /\ pc = "returned"
    /\ plan_cycle([pd_in EXCEPT !.stamp = clock + dt],
                  calc_dist_to_bumper(pd_in.is_driving_forward, cfg))

\* One more iteration of the history loop of a call that is in it: the
\* iterator stands on an entry that is younger than the hold time and fails a
\* lateral test; the iteration leaves the iterator, the list and the inputs
\* as they are.
MaxVisits == 4

history_pass_iteration ==
    /\ pc = "history_pass"
    /\ result.visits < MaxVisits
    /\ result' = [result EXCEPT !.visits = @ + 1]
    /\ UNCHANGED <<cfg, clock, planner_data, prev_stop_obstacles_,
                   prev_closest_stop_obstacles_, stop_pointcloud_obstacle_history_,
                   prev_stop_distance_info_, path_length_buffer_, pc, call>>

-----------------------------------------------------------------------------
\* Inputs.

Traj(front, len, y, behavior_stop) ==
    [front |-> front, len |-> len, y |-> y, behavior_stop |-> behavior_stop]

\* a predicted object; gate "behind" is an object behind the ego.  The object
\* heads along the trajectory and carries no predicted path; it does not move
\* sideways and the hull of its footprints does not collide.
Object(uuid, label, velocity, twist_x, gate, collision) ==
    [ uuid |-> uuid, label |-> label, velocity |-> velocity, twist_x |-> twist_x,
      lon_dist_from_ego |-> IF gate = "behind" THEN -1 ELSE 1,
      gate |-> gate, collision |-> collision,
      collision_point |-> [s |-> collision, y |-> 0],
      diff_angle |-> 0, predicted_paths |-> <<>>,
      lat_vel |-> 0, hull |-> None ]

NoCurve == [collision_idx |-> None, short_margin_from_obstacle |-> 0]

PlannerData(v_ego, ego_s, ego_seg_s, traj, objects, pointcloud) ==
    [ stamp |-> 0, v_ego |-> v_ego, ego_s |-> ego_s, ego_seg_s |-> ego_seg_s,
      is_driving_forward |-> TRUE, traj |-> traj, objects |-> objects,
      pointcloud |-> pointcloud, curve |-> NoCurve ]

\* the state after init(): no call of plan() yet
NoResult ==
    [ stop_point |-> None, stop_obstacles |-> <<>>, determined |-> None,
      default_stop_margin |-> None, held_zero_vel_dist |-> None, fed_buffer |-> FALSE, fixed_stop |-> <<>>,
      visits |-> 0, history_at_entry |-> 0 ]

\* no utility has been called
NoCall == [name |-> "none"]

InitWith(configs) ==
    /\ cfg \in configs
    /\ clock = 0
    /\ planner_data = [PlannerData(0, 0, 0, Traj(0, 0, 0, None), <<>>, <<>>) EXCEPT !.stamp = -1]
    /\ prev_stop_obstacles_ = <<>>
    /\ prev_closest_stop_obstacles_ = <<>>
    /\ stop_pointcloud_obstacle_history_ = <<>>
    /\ prev_stop_distance_info_ = None
    /\ path_length_buffer_ = <<>>
    /\ result = NoResult
    /\ pc = "returned"
    /\ call = NoCall

-----------------------------------------------------------------------------
\* The engine on predicted objects and a point cloud.
UuidA == "a"

UuidB == "b"

\* one object a: stationary (near, or far at two distances), in the
\* enter/exit band, above the exit threshold, oncoming, or without a
\* collision point; and two objects in both orders
ObjectsA ==
    {<<>>}
    \cup {<<Object(UuidA, "CAR", 0, 0, "collide", d)>> : d \in {0, 188, 190}}
    \cup {<<Object(UuidA, "CAR", v, v, "collide", 190)>> : v \in {32, 36, -20}}
    \cup {<<Object(UuidA, "CAR", 0, 0, "none", 0)>>}
    \cup {<<Object(UuidA, "CAR", 32, 32, "collide", 190),
            Object(UuidB, "CAR", 0, 0, "collide", 250)>>,
          <<Object(UuidB, "CAR", 0, 0, "collide", 250),
            Object(UuidA, "CAR", 32, 32, "collide", 190)>>}

PointCloudA == {<<>>, <<[s |-> 350, y |-> 0]>>}

InputsA ==
    {PlannerData(0, 10, 10, Traj(0, 400, 0, None), objects, pointcloud) :
        objects \in ObjectsA, pointcloud \in PointCloudA}

Init == InitWith({BaseConfig})

Next ==
    \E pd \in InputsA, dt \in {0, 1} :
        /\ clock + dt <= MaxClock
        /\ plan(pd, dt)

Spec == Init /\ [][Next]_vars

-----------------------------------------------------------------------------
\* Steps and observations shared by the properties.

\* a step that is a call of plan() which returns
PlanReturns == pc = "returned" /\ pc' = "returned"

\* the answer of is_obstacle_velocity_requiring_fixed_stop for the object
\* with the uuid in the call recorded by (pd, res), or "unevaluated"
decision_of(pd, res, uuid) ==
    LET idx == {i \in 1..Len(pd.objects) : pd.objects[i].uuid = uuid}
    IN  IF idx = {} \/ Len(res.fixed_stop) # Len(pd.objects) THEN "unevaluated"
        ELSE res.fixed_stop[CHOOSE i \in idx : \A j \in idx : i <= j]

velocity_of(pd, uuid) ==
    LET idx == {i \in 1..Len(pd.objects) : pd.objects[i].uuid = uuid}
    IN  pd.objects[CHOOSE i \in idx : \A j \in idx : i <= j].velocity

\* the stop point calc_stop_point produces in the call that has just returned
stop_point_of_cycle ==
    calc_stop_point(planner_data', prev_stop_distance_info_,
                    Value(result'.held_zero_vel_dist)).stop_point

\* C1 (as the code has it): once a stop obstacle is determined, the stop
\* point of the cycle is returned directly and the path-length buffer is left
\* alone when the obstacle's velocity is NOT below max_negative_velocity; when
\* it is below (fast oncoming), the decision is fed to the buffer and the
\* buffer's nearest active stop point, or none, is returned.
C1_BufferOnlyForOncoming ==
    [][(PlanReturns /\ HasValue(result'.determined)) =>
          IF Value(result'.determined).stop_obstacle.velocity < cfg.max_negative_velocity
          THEN /\ path_length_buffer_' =
                      update_buffer(path_length_buffer_, stop_point_of_cycle,
                                    planner_data'.traj, clock', cfg)
               /\ result'.stop_point = get_nearest_active_item(path_length_buffer_')
          ELSE /\ path_length_buffer_' = path_length_buffer_
               /\ result'.stop_point = stop_point_of_cycle]_vars

\* C1 reached: a fast oncoming obstacle is determined, the buffer is fed and
\* serves an active stop point
C1_Witness ==
    /\ pc = "returned"
    /\ HasValue(result.determined)
    /\ Value(result.determined).stop_obstacle.velocity < cfg.max_negative_velocity
    /\ result.fed_buffer
    /\ path_length_buffer_ # <<>>
    /\ HasValue(result.stop_point)

\* C1 as stated: the buffer is skipped for the fast oncoming obstacle and
\* used in every other case
C1_AsStated ==
    [][(PlanReturns /\ HasValue(result'.determined)) =>
          IF Value(result'.determined).stop_obstacle.velocity < cfg.max_negative_velocity
          THEN /\ path_length_buffer_' = path_length_buffer_
               /\ result'.stop_point = stop_point_of_cycle
          ELSE /\ path_length_buffer_' =
                      update_buffer(path_length_buffer_, stop_point_of_cycle,
                                    planner_data'.traj, clock', cfg)
               /\ result'.stop_point = get_nearest_active_item(path_length_buffer_')]_vars

\* the object with the uuid went through the velocity test in two consecutive
\* cycles, with a velocity not below the enter threshold in both
InBandTwice(uuid) ==
    /\ PlanReturns
    /\ decision_of(planner_data, result, uuid) # "unevaluated"
    /\ decision_of(planner_data', result', uuid) # "unevaluated"
    /\ velocity_of(planner_data, uuid) >= cfg.obstacle_velocity_threshold_enter_fixed_stop
    /\ velocity_of(planner_data', uuid) >= cfg.obstacle_velocity_threshold_enter_fixed_stop

\* the object with the uuid went through the velocity test in two consecutive
\* cycles, with a velocity not below the enter threshold in the second
StaysAboveEnter(uuid) ==
    /\ PlanReturns
    /\ decision_of(planner_data, result, uuid) # "unevaluated"
    /\ decision_of(planner_data', result', uuid) # "unevaluated"
    /\ velocity_of(planner_data', uuid) >= cfg.obstacle_velocity_threshold_enter_fixed_stop

\* C3 (amended): while the velocity of an obstacle does not fall below the
\* enter threshold, the fixed-stop answer changes in one direction only: an
\* obstacle that is not a fixed stop stays so, and a fixed stop stays fixed
\* exactly while its velocity is not above the exit threshold.
C3_TogglesOnlyOutOfFixedStop ==
    [][\A uuid \in {UuidA, UuidB} :
          StaysAboveEnter(uuid) =>
              /\ decision_of(planner_data, result, uuid) = "not_fixed"
                     => decision_of(planner_data', result', uuid) = "not_fixed"
              /\ decision_of(planner_data, result, uuid) = "fixed"
                     => (decision_of(planner_data', result', uuid) = "fixed"
                            <=> velocity_of(planner_data', uuid)
                                    <= cfg.obstacle_velocity_threshold_exit_fixed_stop)]_vars

\* C3 reached: an obstacle inside the band is answered "fixed", which only
\* the previous cycle's fixed stop can make it
C3_Witness ==
    /\ pc = "returned"
    /\ decision_of(planner_data, result, UuidA) = "fixed"
    /\ velocity_of(planner_data, UuidA) >= cfg.obstacle_velocity_threshold_enter_fixed_stop
    /\ velocity_of(planner_data, UuidA) < cfg.obstacle_velocity_threshold_exit_fixed_stop

\* C3 as stated: the answer does not toggle from one cycle to the next
C3_AsStated ==
    [][\A uuid \in {UuidA, UuidB} :
          InBandTwice(uuid) =>
              decision_of(planner_data', result', uuid)
                  = decision_of(planner_data, result, uuid)]_vars

\* C4: a call of plan() that repeats the inputs of the call before it, stamps
\* included, with no clock time elapsed, returns the stop point that call
\* returned.
C4_Idempotent ==
    [][(PlanReturns /\ planner_data' = planner_data /\ clock' = clock)
          => result'.stop_point = result.stop_point]_vars

\* C4 reached: the engine holds state of every kind (previous lists, history,
\* previous stop distance, buffer) after a call that returned a stop point
C4_Witness ==
    /\ pc = "returned"
    /\ HasValue(result.stop_point)
    /\ prev_stop_obstacles_ # <<>>
    /\ stop_pointcloud_obstacle_history_ # <<>>
    /\ HasValue(prev_stop_distance_info_)
    /\ path_length_buffer_ # <<>>
    /\ Len(result.stop_obstacles) > Len(prev_stop_obstacles_) + 1

\* C8: the candidate list a cycle leaves holds, for every object, what
\* pick_stop_obstacle_from_predicted_object answers for that object alone
\* against the previous cycle's list; the re-admission reads the previous
\* closest list as the previous cycle left it; and the list does not depend
\* on the order of the objects.
C8_ReadsPreviousCycle ==
    [][PlanReturns =>
          /\ \A i \in 1..Len(planner_data'.objects) :
                 LET alone == pick_stop_obstacle_from_predicted_object(
                                  planner_data', planner_data'.objects[i], clock',
                                  prev_stop_obstacles_, cfg)
                 IN  /\ HasValue(alone) => Value(alone) \in Range(prev_stop_obstacles_')
                     /\ ~HasValue(alone) =>
                            \A so \in Range(prev_stop_obstacles_') :
                                so.uuid = planner_data'.objects[i].uuid
                                    => so \in Range(prev_closest_stop_obstacles_)
          /\ \A p \in Range(prev_closest_stop_obstacles_) :
                 \A i \in 1..Len(planner_data'.objects) :
                     (/\ planner_data'.objects[i].uuid = p.uuid
                      /\ ~HasValue(pick_stop_obstacle_from_predicted_object(
                                       planner_data', planner_data'.objects[i], clock',
                                       prev_stop_obstacles_, cfg))
                      /\ maintain_stop(p, planner_data'.objects[i], clock', cfg))
                         => p \in Range(prev_stop_obstacles_')
          /\ Range(prev_stop_obstacles_')
                 = Range(filter_stop_obstacle_for_predicted_object(
                             planner_data',
                             [i \in 1..Len(planner_data'.objects) |->
                                 planner_data'.objects[Len(planner_data'.objects) + 1 - i]],
                             clock', prev_stop_obstacles_, prev_closest_stop_obstacles_, cfg))]_vars

\* C8 reached: a cycle with two objects in which the object evaluated second
\* is outside the enter threshold and still a fixed stop, by the list the
\* previous cycle left
C8_Witness ==
    /\ pc = "returned"
    /\ Len(planner_data.objects) = 2
    /\ result.fixed_stop = <<"fixed", "fixed">>
    /\ planner_data.objects[2].velocity >= cfg.obstacle_velocity_threshold_enter_fixed_stop
    /\ Len(prev_stop_obstacles_) = 2

\* the case of C10: one stationary fixed-stop obstacle, colliding within the
\* reference trajectory, no behavior stop point, no sudden-stop suppression
SingleStationaryObstacle ==
    /\ pc = "returned"
    /\ Len(result.stop_obstacles) = 1
    /\ result.stop_obstacles[1].velocity = 0
    /\ ~HasValue(result.stop_obstacles[1].braking_dist)
    /\ dist_to_collide_on_ref_traj(planner_data, result.stop_obstacles[1])
           <= planner_data.traj.len
    /\ ~HasValue(planner_data.traj.behavior_stop)
    /\ ~cfg.suppress_sudden_stop

\* C10: for a single stationary obstacle the determined stop arc length is
\* max(0, distance to collision - stop_margin), and without a hold adjustment
\* the stop point is inserted at that arc length.
C10_StationaryStop ==
    SingleStationaryObstacle =>
        LET d == dist_to_collide_on_ref_traj(planner_data, result.stop_obstacles[1])
        IN  /\ HasValue(result.determined)
            /\ Value(result.determined).zero_vel_dist = Max(0, d - cfg.stop_margin)
            /\ Value(result.determined).zero_vel_dist >= 0
            /\ Value(result.held_zero_vel_dist) = Value(result.determined).zero_vel_dist
                   => result.stop_point
                          = Some(point_on_traj(planner_data.traj, Max(0, d - cfg.stop_margin)))

\* C10 reached: the obstacle at 20 m with the margin of 2.2 m gives the stop
\* at 17.8 m
C10_Witness ==
    /\ SingleStationaryObstacle
    /\ dist_to_collide_on_ref_traj(planner_data, result.stop_obstacles[1]) = 200
    /\ cfg.stop_margin = 22
    /\ result.stop_point = Some(point_on_traj(planner_data.traj, 178))

-----------------------------------------------------------------------------
\* The point-cloud history: ten cycles of hold time, one cycle per tick, a
\* trajectory that may shift sideways.
MaxClockPointCloud == 12

PointCloudConfig == [BaseConfig EXCEPT !.stop_obstacle_hold_time_threshold = 10]

InputsPointCloud ==
    {PlannerData(0, 10, 10, Traj(0, 400, y, None), <<>>, pointcloud) :
        y \in {0, 30, 60}, pointcloud \in {<<>>, <<[s |-> 150, y |-> 0]>>}}

InitPointCloud == InitWith({PointCloudConfig})

NextPointCloud ==
    \/ \E pd \in InputsPointCloud :
           /\ clock + 1 <= MaxClockPointCloud
           /\ plan(pd, 1)
    \/ history_pass_iteration

SpecPointCloud == InitPointCloud /\ [][NextPointCloud]_vars

\* C2 as stated: the pass over the history visits each entry once and the
\* cycle runs to completion.
C2_VisitsEachEntryOnce == result.visits <= result.history_at_entry

\* the history entry is output by the call recorded in res
is_output(itr, res) ==
    \E so \in Range(res.stop_obstacles) :
        /\ so.uuid = PointCloudUuid
        /\ so.stamp = itr.stamp
        /\ so.collision_point = itr.collision_point

\* C5: over a cycle that returns, an entry of the history younger than the
\* hold time stays in the history and is output as a stop obstacle; an entry
\* that has reached the hold time is erased and is output no more.
C5_HeldUntilThreshold ==
    [][PlanReturns =>
          \A itr \in Range(stop_pointcloud_obstacle_history_) :
              IF clock' - itr.stamp < cfg.stop_obstacle_hold_time_threshold
              THEN /\ itr \in Range(stop_pointcloud_obstacle_history_')
                   /\ is_output(itr, result')
              ELSE /\ itr \notin Range(stop_pointcloud_obstacle_history_')
                   /\ ~is_output(itr, result')]_vars

\* C5 reached: two cycles after the cycle that recorded it, the obstacle,
\* not detected again, is output
C5_Witness ==
    /\ pc = "returned"
    /\ planner_data.pointcloud = <<>>
    /\ Len(stop_pointcloud_obstacle_history_) = 1
    /\ clock - stop_pointcloud_obstacle_history_[1].stamp = 2
    /\ is_output(stop_pointcloud_obstacle_history_[1], result)
    /\ HasValue(result.stop_point)

-----------------------------------------------------------------------------
\* Sudden-stop suppression, with and without abandon_to_stop.
SuddenStopConfig(abandon_to_stop) ==
    [BaseConfig EXCEPT !.suppress_sudden_stop = TRUE,
                       !.abandon_to_stop = abandon_to_stop,
                       !.limit_min_acc = -50,
                       !.use_pointcloud = FALSE]

ObjectsSuddenStop ==
    {<<>>}
    \cup {<<Object(UuidA, "PEDESTRIAN", 0, 0, "collide", d)>> : d \in {0, 20, 190}}
    \cup {<<Object(UuidA, "CAR", 0, 0, "collide", 20)>>,
          <<Object(UuidB, "CAR", -20, -20, "collide", 190)>>}

InputsSuddenStop ==
    {PlannerData(v_ego, ego_s, 10, Traj(0, 400, 0, None), objects, <<>>) :
        v_ego \in {-10, 0, 10, 20}, ego_s \in {10, 12}, objects \in ObjectsSuddenStop}

InitSuddenStop == InitWith({SuddenStopConfig(FALSE), SuddenStopConfig(TRUE)})

NextSuddenStop ==
    \E pd \in InputsSuddenStop, dt \in {0, 1} :
        /\ clock + dt <= MaxClock
        /\ pd.v_ego # 0 => pd.ego_s = 10
        /\ plan(pd, dt)

SpecSuddenStop == InitSuddenStop /\ [][NextSuddenStop]_vars

\* the raw candidate distance of the determined obstacle, and the
\* deceleration the suppression accepts for it
raw_candidate(pd, determined) ==
    Max(0, dist_to_collide_on_ref_traj(pd, determined.stop_obstacle)
               - determined.desired_stop_margin)

accepted_deceleration(pd, determined, c) ==
    IF determined.stop_obstacle.label \in c.specific_types
       /\ raw_candidate(pd, determined)
              <= Min(Quot(pd.v_ego * pd.v_ego, 2 * (-c.sudden_object_acc_threshold)),
                     c.sudden_object_dist_threshold)
    THEN -c.limit_min_acc
    ELSE -c.limit_min_accel

\* C6 (amended): with suppress_sudden_stop enabled and the ego not moving
\* backwards, the stop distance determined by the selection (before
\* hold-previous-stop) is at least the ego's arc length plus v^2/(2|a|), and
\* the distance finally inserted is that distance or the re-projected
\* previous stop distance within hold_stop_distance_threshold of it.
C6_DeterminedDistanceRespectsLimit ==
    (pc = "returned" /\ cfg.suppress_sudden_stop /\ HasValue(result.determined)
        /\ planner_data.v_ego >= 0) =>
        LET determined == Value(result.determined)
            held == Value(result.held_zero_vel_dist)
        IN  /\ 2 * accepted_deceleration(planner_data, determined, cfg)
                   * (determined.zero_vel_dist - planner_data.ego_s)
               >= planner_data.v_ego * planner_data.v_ego
            /\ determined.zero_vel_dist >= raw_candidate(planner_data, determined)
            /\ \/ held = determined.zero_vel_dist
               \/ /\ Abs(planner_data.v_ego) < cfg.hold_stop_velocity_threshold
                  /\ Abs(held - determined.zero_vel_dist) < cfg.hold_stop_distance_threshold

\* C6 reached: the suppression moves the stop of a moving ego beyond the raw
\* candidate distance
C6_Witness ==
    /\ pc = "returned"
    /\ cfg.suppress_sudden_stop
    /\ HasValue(result.determined)
    /\ planner_data.v_ego > 0
    /\ Value(result.determined).zero_vel_dist
           > raw_candidate(planner_data, Value(result.determined))
    /\ accepted_deceleration(planner_data, Value(result.determined), cfg) = -cfg.limit_min_acc
    /\ HasValue(result.stop_point)

\* C6 as stated: the distance finally used for the insertion is at least the
\* ego's arc length plus v^2/(2|a|)
C6_AsStated ==
    (pc = "returned" /\ cfg.suppress_sudden_stop /\ HasValue(result.determined)) =>
        2 * accepted_deceleration(planner_data, Value(result.determined), cfg)
            * (Value(result.held_zero_vel_dist) - planner_data.ego_s)
        >= planner_data.v_ego * planner_data.v_ego

\* C7: a call of plan_stop that determines no obstacle (no candidate, or
\* every candidate abandoned) returns no stop point, clears the previous stop
\* distance and leaves the buffer as it was; the call after it holds no
\* previous stop distance.
C7_NoStopClearsPreviousDistance ==
    [][/\ (PlanReturns /\ ~HasValue(result'.determined)) =>
              /\ result'.stop_point = None
              /\ prev_stop_distance_info_' = None
              /\ path_length_buffer_' = path_length_buffer_
       /\ (PlanReturns /\ ~HasValue(result.determined) /\ HasValue(result'.determined)) =>
              Value(result'.held_zero_vel_dist) = Value(result'.determined).zero_vel_dist]_vars

\* C7 reached: every candidate of the cycle is abandoned while the buffer
\* holds an item
C7_Witness ==
    /\ pc = "returned"
    /\ result.stop_obstacles # <<>>
    /\ ~HasValue(result.determined)
    /\ prev_stop_distance_info_ = None
    /\ path_length_buffer_ # <<>>

-----------------------------------------------------------------------------
\* The default stop margin on an oncoming obstacle, as a function of the ego
\* velocity, the obstacle velocity, the distance and the configured margins.
MarginConfig(stop_margin, stop_margin_opposing_traffic) ==
    [BaseConfig EXCEPT !.stop_margin = stop_margin,
                       !.stop_margin_opposing_traffic = stop_margin_opposing_traffic]

InputsMargin ==
    {PlannerData(v_ego, 0, 0, Traj(0, 400, 0, None),
                 <<Object(UuidA, "CAR", v_obs, v_obs, "collide", d)>>, <<>>) :
        v_ego \in {-40, -20, 0, 10, 20, 40}, v_obs \in {-10, -20, -40},
        d \in {0, 40, 60, 80, 120, 200}}

\* the default stop margin of calc_desired_stop_margin for the object of pd
evaluate_default_stop_margin(pd) ==
    /\ pc = "returned"
    /\ planner_data' = pd
    /\ result' = [NoResult EXCEPT !.default_stop_margin =
           LET picked == pick_stop_obstacle_from_predicted_object(
                             pd, pd.objects[1], pd.stamp, prev_stop_obstacles_, cfg)
           IN  Some(default_stop_margin_ratio(
                        pd.v_ego, Value(picked),
                        dist_to_collide_on_ref_traj(pd, Value(picked)), pd.traj.len, cfg))]
    /\ UNCHANGED <<cfg, clock, prev_stop_obstacles_, prev_closest_stop_obstacles_,
                   stop_pointcloud_obstacle_history_, prev_stop_distance_info_,
                   path_length_buffer_, pc, call>>

InitMargin ==
    InitWith({MarginConfig(m, o) : m \in {22, 50, 120}, o \in {50, 100}})

NextMargin == \E pd \in InputsMargin : evaluate_default_stop_margin(pd)

SpecMargin == InitMargin /\ [][NextMargin]_vars

\* the oncoming branch was taken with the coasting time floored at 0
CoastingTimeIsZero ==
    /\ HasValue(result.default_stop_margin)
    /\ planner_data.objects[1].velocity < cfg.max_negative_velocity
    /\ planner_data.v_ego # planner_data.objects[1].velocity
    /\ ~is_coasting(planner_data.v_ego, planner_data.objects[1].velocity,
                    planner_data.objects[1].collision, cfg)

\* C9 (amended): when the coasting time is 0 and the ego closes on the
\* obstacle (relative velocity positive), the default stop margin is at most
\* stop_margin_opposing_traffic.
C9_MarginAtMostOpposingTrafficMargin ==
    (CoastingTimeIsZero /\ planner_data.v_ego - planner_data.objects[1].velocity > 0) =>
        Value(result.default_stop_margin)[1]
            <= cfg.stop_margin_opposing_traffic * Value(result.default_stop_margin)[2]

\* C9 reached: the coasting time is 0 for a moving ego, and the margin is
\* above the plain stop_margin
C9_Witness ==
    /\ CoastingTimeIsZero
    /\ planner_data.v_ego > 0
    /\ Value(result.default_stop_margin)[1]
           > cfg.stop_margin * Value(result.default_stop_margin)[2]

\* C9 as stated: when the coasting time is 0 the default stop margin is at
\* most stop_margin
C9_AsStated ==
    CoastingTimeIsZero =>
        Value(result.default_stop_margin)[1]
            <= cfg.stop_margin * Value(result.default_stop_margin)[2]

-----------------------------------------------------------------------------
\* Crossing obstacles: one object with a collision point, at several
\* headings, distances and predicted paths, with ignore_crossing_obstacle set.
CrossingConfig ==
    [BaseConfig EXCEPT !.ignore_crossing_obstacle = TRUE, !.use_pointcloud = FALSE]

PredictedPath(confidence, size, collides_until) ==
    [confidence |-> confidence, size |-> size, collides_until |-> collides_until]

\* an object with the collision point at the position s, `dist` ahead of the
\* bumper on the decimated trajectory
CrossingObject(uuid, label, diff_angle, s, dist, predicted_paths) ==
    [ Object(uuid, label, 0, 0, "collide", dist) EXCEPT
          !.collision_point = [s |-> s, y |-> 0],
          !.diff_angle = diff_angle,
          !.predicted_paths = predicted_paths ]

PredictedPathsCrossing ==
    { <<>>,
      <<PredictedPath(9, 1, 0)>>,
      <<PredictedPath(9, 61, 30)>>,
      <<PredictedPath(9, 61, 61)>>,
      <<PredictedPath(9, 21, 21)>>,
      <<PredictedPath(9, 121, 105)>>,
      <<PredictedPath(5, 61, 0), PredictedPath(9, 1, 0)>>,
      <<PredictedPath(5, 61, 61), PredictedPath(9, 61, 30)>> }

InputsCrossing ==
    {PlannerData(v_ego, 10, 10, Traj(0, 400, 0, None),
                 <<CrossingObject(UuidA, "PEDESTRIAN", diff_angle, s, s - 46, paths)>>, <<>>) :
        v_ego \in {0, 50}, diff_angle \in {0, 45, 90, -90, 135, 136},
        s \in {76, 156, 296}, paths \in PredictedPathsCrossing}

InitCrossing == InitWith({CrossingConfig})

NextCrossing ==
    \E pd \in InputsCrossing :
        /\ clock + 1 <= MaxClock
        /\ plan(pd, 1)

SpecCrossing == InitCrossing /\ [][NextCrossing]_vars

\* the object is among the stop obstacles picked in the cycle that has just
\* returned at the time `now`
picked_in_cycle(stop_obstacles, object, now) ==
    \E so \in Range(stop_obstacles) : so.uuid = object.uuid /\ so.stamp = now

\* the predicted path of the highest confidence
highest_confidence_path(object) ==
    object.predicted_paths[
        CHOOSE i \in 1..Len(object.predicted_paths) :
            \A j \in 1..Len(object.predicted_paths) :
                object.predicted_paths[i].confidence >= object.predicted_paths[j].confidence]

\* ten times the distance the ego covers to the collision point, and the
\* velocity it is covered at: the time to reach, in ticks, is their quotient
distance_to_reach(pd, object, c) ==
    10 * (Abs(object.collision_point.s - (pd.traj.front + pd.ego_s))
              - (c.min_behavior_stop_margin + Abs(c.max_longitudinal_offset_m)))

velocity_to_reach(pd, c) == Max(c.min_velocity_to_reach_collision_point, Abs(pd.v_ego))

\* the relative time at which the object is predicted: time to reach - margin
arrival_minus_margin(pd, object, c) ==
    Quot(distance_to_reach(pd, object, c), velocity_to_reach(pd, c))
        - c.crossing_obstacle_collision_time_margin

\* C11 (amended): with ignore_crossing_obstacle enabled, an inside-type
\* obstacle with a collision point is discarded exactly when its heading
\* differs from the trajectory direction by at least the angular threshold
\* from both 0 and 180 degrees, the time to reach the collision point exceeds
\* the margin, the predicted path of the highest confidence has at least two
\* poses, and the footprint has no collision at the pose of that path at
\* (time to reach - margin), or at the last pose of the path cut at the
\* horizon of 10 s when that time is beyond it.
C11_DiscardedWhenCrossingAndClear ==
    [][PlanReturns =>
          \A i \in 1..Len(planner_data'.objects) :
              LET object == planner_data'.objects[i]
                  last == Min(highest_confidence_path(object).size - 1,
                              prediction_resampling_time_horizon)
                  t == arrival_minus_margin(planner_data', object, cfg)
              IN  (cfg.ignore_crossing_obstacle /\ object.gate = "collide"
                       /\ object.label \in cfg.inside_stop_object_types) =>
                      (~picked_in_cycle(prev_stop_obstacles_', object, clock')
                       <=> /\ cfg.crossing_obstacle_traj_angle_threshold <= Abs(object.diff_angle)
                           /\ Abs(object.diff_angle)
                                  <= M_PI - cfg.crossing_obstacle_traj_angle_threshold
                           /\ distance_to_reach(planner_data', object, cfg)
                                  > cfg.crossing_obstacle_collision_time_margin
                                        * velocity_to_reach(planner_data', cfg)
                           /\ object.predicted_paths # <<>>
                           /\ highest_confidence_path(object).size >= 2
                           /\ (IF t <= last THEN t ELSE last)
                                  >= highest_confidence_path(object).collides_until)]_vars

\* C11 reached: the obstacle crosses at 90 degrees, the ego reaches the
\* collision point in 5 s, the margin is 1 s, the pose at 4 s has no
\* collision: the obstacle is discarded and the cycle plans no stop
C11_Witness ==
    /\ pc = "returned"
    /\ cfg.ignore_crossing_obstacle
    /\ Len(planner_data.objects) = 1
    /\ planner_data.objects[1].diff_angle = 90
    /\ arrival_minus_margin(planner_data, planner_data.objects[1], cfg) = 40
    /\ cfg.crossing_obstacle_collision_time_margin = 10
    /\ planner_data.objects[1].predicted_paths = <<PredictedPath(9, 61, 30)>>
    /\ prev_stop_obstacles_ = <<>>
    /\ result.stop_point = None

\* C11 as stated: discarded exactly when the heading differs by more than the
\* threshold from both 0 and 180 degrees, the time to reach exceeds the
\* margin, the path of the highest confidence has at least two poses and the
\* footprint has no collision at the pose at (time to reach - margin); for
\* the cycles in which the path has a pose at that time
C11_AsStated ==
    [][PlanReturns =>
          \A i \in 1..Len(planner_data'.objects) :
              LET object == planner_data'.objects[i]
                  t == arrival_minus_margin(planner_data', object, cfg)
              IN  (cfg.ignore_crossing_obstacle /\ object.gate = "collide"
                       /\ object.label \in cfg.inside_stop_object_types
                       /\ object.predicted_paths # <<>>
                       /\ t <= highest_confidence_path(object).size - 1) =>
                      (~picked_in_cycle(prev_stop_obstacles_', object, clock')
                       <=> /\ cfg.crossing_obstacle_traj_angle_threshold < Abs(object.diff_angle)
                           /\ Abs(object.diff_angle)
                                  < M_PI - cfg.crossing_obstacle_traj_angle_threshold
                           /\ distance_to_reach(planner_data', object, cfg)
                                  > cfg.crossing_obstacle_collision_time_margin
                                        * velocity_to_reach(planner_data', cfg)
                           /\ highest_confidence_path(object).size >= 2
                           /\ t >= highest_confidence_path(object).collides_until)]_vars

-----------------------------------------------------------------------------
\* path_generator utilities on a lanelet sequence (utils.cpp of
\* autoware_path_generator).  A lanelet is the triple of the lengths of its
\* centerline and of its two bounds; the three lines of a lanelet are
\* concentric arcs (or parallel segments), so that the point at the distance
\* d of one line projects onto another line at the same fraction of its
\* length.  Arc lengths are integers in 0.01 m.
Lanelet(centerline, left, right) ==
    [centerline |-> centerline, leftBound |-> left, rightBound |-> right]

\* lanelet::geometry::toArcCoordinates(to, interpolatedPointAtDistance(from,
\* dist)).length, for two lines of one lanelet, as <<numerator, denominator>>
to_arc_length(from_length, to_length, dist) ==
    <<Min(Max(dist, 0), from_length) * to_length, from_length>>

\* get_arc_length_on_bounds: the loop over the lanelets, with s, s_left and
\* s_right accumulated
RECURSIVE arc_length_on_bounds_loop(_, _, _, _, _)
arc_length_on_bounds_loop(lanelets, s_centerline, s, s_left, s_right) ==
    IF lanelets = <<>> THEN [left |-> s_centerline, right |-> s_centerline]
    ELSE LET it == Head(lanelets)
         IN  IF s + it.centerline < s_centerline
             THEN arc_length_on_bounds_loop(Tail(lanelets), s_centerline, s + it.centerline,
                                            s_left + it.leftBound, s_right + it.rightBound)
             ELSE LET l == to_arc_length(it.centerline, it.leftBound, s_centerline - s)
                      r == to_arc_length(it.centerline, it.rightBound, s_centerline - s)
                  IN  [left |-> s_left + Quot(l[1], l[2]),
                       right |-> s_right + Quot(r[1], r[2])]

get_arc_length_on_bounds(lanelet_sequence, s_centerline) ==
    IF s_centerline < 0 THEN [left |-> 0, right |-> 0]
    ELSE arc_length_on_bounds_loop(lanelet_sequence, s_centerline, 0, 0, 0)

\* get_arc_length_on_centerline: the loop over the lanelets; `done` holds
\* s_left_centerline and s_right_centerline
RECURSIVE arc_length_on_centerline_loop(_, _, _, _, _, _, _)
arc_length_on_centerline_loop(lanelets, s_left_bound, s_right_bound, done, s, s_left, s_right) ==
    LET is_left_done == ~HasValue(s_left_bound) \/ HasValue(done.left)
        is_right_done == ~HasValue(s_right_bound) \/ HasValue(done.right)
    IN  IF lanelets = <<>> \/ (is_left_done /\ is_right_done) THEN done
        ELSE LET it == Head(lanelets)
                 l == to_arc_length(it.leftBound, it.centerline, Value(s_left_bound) - s_left)
                 r == to_arc_length(it.rightBound, it.centerline, Value(s_right_bound) - s_right)
             IN  arc_length_on_centerline_loop(
                     Tail(lanelets), s_left_bound, s_right_bound,
                     [left |-> IF ~is_left_done /\ s_left + it.leftBound > Value(s_left_bound)
                               THEN Some(s + Quot(l[1], l[2]))
                               ELSE done.left,
                      right |-> IF ~is_right_done /\ s_right + it.rightBound > Value(s_right_bound)
                                THEN Some(s + Quot(r[1], r[2]))
                                ELSE done.right],
                     s + it.centerline, s_left + it.leftBound, s_right + it.rightBound)

get_arc_length_on_centerline(lanelet_sequence, s_left_bound, s_right_bound) ==
    LET done == arc_length_on_centerline_loop(
                    lanelet_sequence, s_left_bound, s_right_bound,
                    [left |-> IF HasValue(s_left_bound) /\ Value(s_left_bound) < 0
                              THEN Some(0) ELSE None,
                     right |-> IF HasValue(s_right_bound) /\ Value(s_right_bound) < 0
                               THEN Some(0) ELSE None],
                    0, 0, 0)
    IN  [left |-> IF HasValue(done.left) THEN done.left ELSE s_left_bound,
         right |-> IF HasValue(done.right) THEN done.right ELSE s_right_bound]

\* the arc lengths on which every projection of the sequence is an integer
RECURSIVE exact_projection(_, _, _)
exact_projection(lanelets, s_centerline, s) ==
    IF lanelets = <<>> THEN TRUE
    ELSE LET it == Head(lanelets)
         IN  IF s + it.centerline < s_centerline
             THEN exact_projection(Tail(lanelets), s_centerline, s + it.centerline)
             ELSE /\ IsExact((s_centerline - s) * it.leftBound, it.centerline)
                  /\ IsExact((s_centerline - s) * it.rightBound, it.centerline)

\* Trajectory<Point>: a line string is the sequence of the positions of its
\* points along a straight line, strictly increasing.  Builder::build fails
\* on fewer than two points; crop(start, length) keeps the part of the line
\* between the arc lengths start and start + length, restore() returns its
\* end points and the points of the line string between them.
trajectory_crop_restore(line_string, start, length) ==
    LET total == line_string[Len(line_string)] - line_string[1]
        from == line_string[1] + Min(Max(start, 0), total)
        to == line_string[1] + Min(Max(start + length, 0), total)
    IN  IF to < from THEN <<>>
        ELSE <<from>>
                 \o SelectSeq(line_string, LAMBDA x : from < x /\ x < to)
                 \o (IF to > from THEN <<to>> ELSE <<>>)

\* a range test that accepts a start larger than the end
returns_input_on_negative_start(s_start, s_end) == s_start < 0

\* crop_line_string: the two tests that return the input as it is
returns_input_as_is(s_start, s_end) == s_start < 0 \/ s_start > s_end

crop_line_string(line_string, s_start, s_end) ==
    IF returns_input_as_is(s_start, s_end) THEN line_string
    ELSE IF Len(line_string) < 2 THEN <<>>
    ELSE trajectory_crop_restore(line_string, s_start, s_end - s_start)

\* The calls.  A call records its name, its arguments and the value returned.
call_get_arc_length_on_bounds(lanelet_sequence, s_centerline) ==
    /\ exact_projection(lanelet_sequence, s_centerline, 0)
    /\ call' = [ name |-> "get_arc_length_on_bounds",
                 lanelet_sequence |-> lanelet_sequence,
                 s_centerline |-> s_centerline,
                 value |-> get_arc_length_on_bounds(lanelet_sequence, s_centerline) ]
    /\ UNCHANGED <<cfg, clock, planner_data, prev_stop_obstacles_,
                   prev_closest_stop_obstacles_, stop_pointcloud_obstacle_history_,
                   prev_stop_distance_info_, path_length_buffer_, result, pc>>

\* get_arc_length_on_centerline on the left value the call before it returned
call_get_arc_length_on_centerline ==
    /\ call.name = "get_arc_length_on_bounds"
    /\ call' = [ name |-> "get_arc_length_on_centerline",
                 lanelet_sequence |-> call.lanelet_sequence,
                 s_left_bound |-> Some(call.value.left),
                 s_right_bound |-> None,
                 value |-> get_arc_length_on_centerline(
                               call.lanelet_sequence, Some(call.value.left), None) ]
    /\ UNCHANGED <<cfg, clock, planner_data, prev_stop_obstacles_,
                   prev_closest_stop_obstacles_, stop_pointcloud_obstacle_history_,
                   prev_stop_distance_info_, path_length_buffer_, result, pc>>

call_crop_line_string(line_string, s_start, s_end) ==
    /\ call' = [ name |-> "crop_line_string",
                 line_string |-> line_string, s_start |-> s_start, s_end |-> s_end,
                 value |-> crop_line_string(line_string, s_start, s_end) ]
    /\ UNCHANGED <<cfg, clock, planner_data, prev_stop_obstacles_,
                   prev_closest_stop_obstacles_, stop_pointcloud_obstacle_history_,
                   prev_stop_distance_info_, path_length_buffer_, result, pc>>

\* sequences of one or two lanelets: straight, curving right (the left bound
\* is the longer one) and curving left
LaneletsPathUtils ==
    {Lanelet(1000, 1000, 1000), Lanelet(1000, 1200, 800), Lanelet(1000, 800, 1200)}

LaneletSequencesPathUtils ==
    {<<a>> : a \in LaneletsPathUtils}
    \cup {<<a, b>> : a \in LaneletsPathUtils, b \in LaneletsPathUtils}

ArcLengthsPathUtils == {0, 250, 500, 1000, 1100, 1500, 2000, 2100, 2500}

LineStringsPathUtils == {<<>>, <<0>>, <<0, 1000>>, <<0, 500, 1000>>, <<200, 500, 700, 1200>>}

InitPathUtils == InitWith({BaseConfig})

NextPathUtils ==
    \/ \E lanelet_sequence \in LaneletSequencesPathUtils, s_centerline \in ArcLengthsPathUtils :
           call_get_arc_length_on_bounds(lanelet_sequence, s_centerline)
    \/ call_get_arc_length_on_centerline
    \/ \E line_string \in LineStringsPathUtils, s_start \in {-100, 0, 300, 600},
          s_end \in {-200, 0, 300, 600, 2000} :
           call_crop_line_string(line_string, s_start, s_end)

SpecPathUtils == InitPathUtils /\ [][NextPathUtils]_vars

\* C12 as stated: for every s >= 0 on a non-empty lanelet sequence,
\* get_arc_length_on_centerline applied to the left value of
\* get_arc_length_on_bounds(s) returns s as its left value (the arc lengths of
\* the model are exact, so that "within a small epsilon" is equality).
C12_RoundTrip ==
    [][(/\ call.name = "get_arc_length_on_bounds"
        /\ call'.name = "get_arc_length_on_centerline"
        /\ call.s_centerline >= 0
        /\ call.lanelet_sequence # <<>>)
          => call'.value.left = Some(call.s_centerline)]_vars

\* C13 as stated: for all 0 <= s1 <= s2 on one lanelet sequence, the left and
\* the right value of get_arc_length_on_bounds(s1) are at most those of
\* get_arc_length_on_bounds(s2), s2 beyond the centerline included.
C13_Monotonic ==
    [][(/\ call.name = "get_arc_length_on_bounds"
        /\ call'.name = "get_arc_length_on_bounds"
        /\ call'.lanelet_sequence = call.lanelet_sequence
        /\ 0 <= call.s_centerline
        /\ call.s_centerline <= call'.s_centerline)
          => /\ call.value.left <= call'.value.left
             /\ call.value.right <= call'.value.right]_vars

\* C14: crop_line_string with s_start > s_end, or with a negative s_start,
\* returns the line string it was given.
C14_DegenerateRangeReturnsInput ==
    (call.name = "crop_line_string" /\ (call.s_start > call.s_end \/ call.s_start < 0))
        => call.value = call.line_string

\* C14 reached: a line string of four points, cropped from 6 m to 3 m, comes
\* back with its four points
C14_Witness ==
    /\ call.name = "crop_line_string"
    /\ call.s_start = 600
    /\ call.s_end = 300
    /\ Len(call.line_string) = 4
    /\ call.value = call.line_string

-----------------------------------------------------------------------------
\* init(): the module is constructed, init() reads the parameters of the node
\* and either throws or leaves the module ready for plan().

\* a test against the stop margin of the stop planning
is_mask_narrower_than_stop_margin(mask_lat_margin, c) == mask_lat_margin < c.stop_margin

\* mask_lat_margin < obstacle_filtering_param_.max_lat_margin
is_mask_too_narrow(mask_lat_margin, c) == mask_lat_margin < c.max_lat_margin

\* the parameters read when the test is made: all but those of the buffer
read_before_buffer(node) ==
    [f \in DOMAIN node \ {"update_distance_th", "min_off_duration", "min_on_duration"} |->
        IF f = "created" THEN {} ELSE node[f]]

\* the module before init()
NoConfig == [created |-> {}]

init(node) ==
    /\ pc = "constructed"
    /\ IF is_mask_too_narrow(node.mask_lat_margin, read_before_buffer(node))
       THEN /\ pc' = "init_failed"
            /\ cfg' = read_before_buffer(node)
            /\ UNCHANGED path_length_buffer_
       ELSE /\ pc' = "returned"
            /\ cfg' = node
            /\ path_length_buffer_' = <<>>
    /\ UNCHANGED <<clock, planner_data, prev_stop_obstacles_, prev_closest_stop_obstacles_,
                   stop_pointcloud_obstacle_history_, prev_stop_distance_info_, result, call>>

NodeParametersInit ==
    {[BaseConfig EXCEPT !.mask_lat_margin = mask, !.max_lat_margin = lat, !.stop_margin = margin] :
        mask \in {0, 3, 10, 30}, lat \in {3, 6}, margin \in {5, 22}}

InputsInit ==
    {PlannerData(0, 10, 10, Traj(0, 400, 0, None), objects, pointcloud) :
        objects \in {<<>>, <<Object(UuidA, "CAR", 0, 0, "collide", 190)>>},
        pointcloud \in {<<>>, <<[s |-> 350, y |-> 0]>>}}

InitConstructed ==
    /\ cfg = NoConfig
    /\ clock = 0
    /\ planner_data = [PlannerData(0, 0, 0, Traj(0, 0, 0, None), <<>>, <<>>) EXCEPT !.stamp = -1]
    /\ prev_stop_obstacles_ = <<>>
    /\ prev_closest_stop_obstacles_ = <<>>
    /\ stop_pointcloud_obstacle_history_ = <<>>
    /\ prev_stop_distance_info_ = None
    /\ path_length_buffer_ = <<>>
    /\ result = NoResult
    /\ pc = "constructed"
    /\ call = NoCall

NextInit ==
    \/ \E node \in NodeParametersInit : init(node)
    \/ \E pd \in InputsInit, dt \in {0, 1} :
           /\ clock + dt <= MaxClock
           /\ plan(pd, dt)

SpecInit == InitConstructed /\ [][NextInit]_vars

-----------------------------------------------------------------------------
\* The candidate list from one cycle to the next: objects that stay, lose
\* their collision point or vanish, at velocities around the two thresholds,
\* with and without the RSS stop.
ConsistencyConfig(use_rss_stop) ==
    [BaseConfig EXCEPT !.use_pointcloud = FALSE,
                       !.use_rss_stop = use_rss_stop,
                       !.vehicle_objects_deceleration = -5,
                       !.no_wheel_objects_deceleration = -5,
                       !.obstacle_velocity_threshold_enter_fixed_stop = 30,
                       !.obstacle_velocity_threshold_exit_fixed_stop = 40]

ObjectsConsistency ==
    {<<>>}
    \cup {<<Object(UuidA, "CAR", v, v, gate, 190)>> :
              v \in {-20, 0, 30, 40, 50}, gate \in {"collide", "none"}}
    \cup {<<Object(UuidA, "CAR", 0, 0, gate, 190),
            Object(UuidB, "PEDESTRIAN", 0, 0, "collide", 150)>> : gate \in {"collide", "none"}}

InputsConsistency ==
    {PlannerData(0, 10, 10, Traj(0, 400, 0, None), objects, <<>>) :
        objects \in ObjectsConsistency}

InitConsistency == InitWith({ConsistencyConfig(TRUE), ConsistencyConfig(FALSE)})

NextConsistency ==
    \E pd \in InputsConsistency, dt \in {0, 1} :
        /\ clock + dt <= MaxClock
        /\ plan(pd, dt)

SpecConsistency == InitConsistency /\ [][NextConsistency]_vars

\* the stop obstacles the filter of the cycle that has just returned picked
\* from its objects, before the consistency pass
filtered_in_cycle ==
    pick_loop(planner_data', planner_data'.objects, clock', prev_stop_obstacles_, <<>>, cfg)

\* the objects of the snapshot with the uuid
objects_with_uuid(pd, uuid) == {o \in Range(pd.objects) : o.uuid = uuid}

\* C16: a previous closest obstacle whose uuid is among the objects of the
\* cycle but not among the stop obstacles the filter picked is re-added
\* exactly when the object's velocity is below the enter threshold and the
\* time since the obstacle's stamp is under the hold time; an obstacle the
\* filter picked is in the list once.
C16_ReadmittedWhenSlowAndRecent ==
    [][PlanReturns =>
          /\ \A p \in Range(prev_closest_stop_obstacles_) :
                 \A object \in objects_with_uuid(planner_data', p.uuid) :
                     (\A so \in Range(filtered_in_cycle) : so.uuid # p.uuid) =>
                         (p \in Range(prev_stop_obstacles_')
                          <=> /\ object.twist_x
                                     < cfg.obstacle_velocity_threshold_enter_fixed_stop
                              /\ clock' - p.stamp < cfg.stop_obstacle_hold_time_threshold)
          /\ \A so \in Range(filtered_in_cycle) :
                 Cardinality({i \in 1..Len(prev_stop_obstacles_') :
                                 prev_stop_obstacles_'[i].uuid = so.uuid}) = 1]_vars

\* C16 reached: the obstacle picked one tick ago has lost its collision point
\* and is in the candidate list of this cycle, with its old stamp
C16_Witness ==
    /\ pc = "returned"
    /\ Len(planner_data.objects) = 1
    /\ planner_data.objects[1].gate = "none"
    /\ Len(prev_stop_obstacles_) = 1
    /\ prev_stop_obstacles_[1].uuid = planner_data.objects[1].uuid
    /\ prev_stop_obstacles_[1].stamp = clock - 1
    /\ HasValue(result.stop_point)

\* C17 (amended): a previous closest obstacle whose uuid is not among the
\* objects of the cycle is not re-admitted, however slow and recent it is.
C17_VanishedIsNotReadmitted ==
    [][PlanReturns =>
          \A p \in Range(prev_closest_stop_obstacles_) :
              objects_with_uuid(planner_data', p.uuid) = {} =>
                  \A so \in Range(prev_stop_obstacles_') : so.uuid # p.uuid]_vars

\* C17 reached: the oncoming obstacle that fed the buffer one tick ago is not
\* among the objects of this cycle, and the cycle has no stop obstacle
C17_Witness ==
    /\ pc = "returned"
    /\ planner_data.objects = <<>>
    /\ path_length_buffer_ # <<>>
    /\ path_length_buffer_[1].last_time = clock - 1
    /\ prev_stop_obstacles_ = <<>>
    /\ result.stop_point = None

\* C17 as stated: a previous closest obstacle that is no longer among the
\* objects, was slow and vanished less than the hold time ago is re-admitted
C17_AsStated ==
    [][PlanReturns =>
          \A p \in Range(prev_closest_stop_obstacles_) :
              (/\ objects_with_uuid(planner_data', p.uuid) = {}
               /\ p.velocity < cfg.obstacle_velocity_threshold_enter_fixed_stop
               /\ clock' - p.stamp < cfg.stop_obstacle_hold_time_threshold)
                  => p \in Range(prev_stop_obstacles_')]_vars

\* the entry of the previous candidate list for the uuid is a fixed stop
was_fixed_stop(uuid) ==
    \E i \in 1..Len(prev_stop_obstacles_) :
        /\ prev_stop_obstacles_[i].uuid = uuid
        /\ \A j \in 1..(i - 1) : prev_stop_obstacles_[j].uuid # uuid
        /\ prev_stop_obstacles_[i].braking_dist = None

\* C18: an object that was a fixed stop in the previous list requires a fixed
\* stop unless its velocity is strictly above the exit threshold; any other
\* object requires one exactly when its velocity is strictly below the enter
\* threshold.  A fixed stop is emitted without braking distance, a non-fixed
\* one with a braking distance if use_rss_stop is set, and is discarded
\* otherwise.
C18_HysteresisStepRule ==
    [][PlanReturns =>
          \A i \in 1..Len(planner_data'.objects) :
              LET object == planner_data'.objects[i]
                  emitted == {so \in Range(filtered_in_cycle) : so.uuid = object.uuid}
              IN  result'.fixed_stop[i] # "unevaluated" =>
                      /\ result'.fixed_stop[i] = "fixed"
                             <=> IF was_fixed_stop(object.uuid)
                                 THEN object.velocity
                                          <= cfg.obstacle_velocity_threshold_exit_fixed_stop
                                 ELSE object.velocity
                                          < cfg.obstacle_velocity_threshold_enter_fixed_stop
                      /\ result'.fixed_stop[i] = "fixed" =>
                             /\ emitted # {}
                             /\ \A so \in emitted : so.braking_dist = None
                             /\ emitted \subseteq Range(prev_stop_obstacles_')
                      /\ (result'.fixed_stop[i] = "not_fixed" /\ cfg.use_rss_stop) =>
                             /\ emitted # {}
                             /\ \A so \in emitted :
                                    2 * (-braking_acc(object.label, cfg)) * Value(so.braking_dist)
                                        = Max(object.velocity, 0) * Max(object.velocity, 0)
                             /\ emitted \subseteq Range(prev_stop_obstacles_')
                      /\ (result'.fixed_stop[i] = "not_fixed" /\ ~cfg.use_rss_stop) =>
                             \A so \in Range(prev_stop_obstacles_') : so.uuid # object.uuid]_vars

\* C18 reached: an obstacle at the exit threshold itself, which only a fixed
\* stop of the previous cycle can make a fixed stop, is emitted without
\* braking distance
C18_Witness ==
    /\ pc = "returned"
    /\ Len(planner_data.objects) = 1
    /\ result.fixed_stop = <<"fixed">>
    /\ planner_data.objects[1].velocity = cfg.obstacle_velocity_threshold_exit_fixed_stop
    /\ Len(prev_stop_obstacles_) = 1
    /\ prev_stop_obstacles_[1].braking_dist = None
    /\ prev_stop_obstacles_[1].velocity = planner_data.objects[1].velocity

-----------------------------------------------------------------------------
\* The selection among candidates: up to three objects of several labels, at
\* equal and at different distances, with a moving ego; without the
\* sudden-stop suppression, and with it and abandon_to_stop.
SelectionConfig(suppress_sudden_stop) ==
    [BaseConfig EXCEPT !.use_pointcloud = FALSE,
                       !.suppress_sudden_stop = suppress_sudden_stop,
                       !.abandon_to_stop = TRUE]

ObjectsSelection ==
    LET as == {Object(UuidA, "CAR", 0, 0, "collide", 150),
               Object(UuidA, "CAR", 0, 0, "collide", 190),
               Object(UuidA, "PEDESTRIAN", 0, 0, "collide", 190)}
        bs == {Object(UuidB, "PEDESTRIAN", 0, 0, "collide", 0),
               Object(UuidB, "PEDESTRIAN", 0, 0, "collide", 150),
               Object(UuidB, "PEDESTRIAN", 0, 0, "collide", 190),
               Object(UuidB, "CAR", 0, 0, "collide", 150)}
        cs == {Object("c", "UNKNOWN", 0, 0, "collide", 190),
               Object("c", "CAR", 0, 0, "collide", 250)}
    IN  {<<>>}
        \cup {<<b>> : b \in bs}
        \cup {<<a, b>> : a \in as, b \in bs}
        \cup {<<b, a>> : a \in as, b \in bs}
        \cup {<<a, b, c>> : a \in as, b \in bs, c \in cs}
        \cup {<<c, b, a>> : a \in as, b \in bs, c \in cs}

InputsSelection ==
    {PlannerData(10, 10, 10, Traj(0, 400, 0, None), objects, <<>>) :
        objects \in ObjectsSelection}

InitSelection == InitWith({SelectionConfig(FALSE), SelectionConfig(TRUE)})

NextSelection ==
    \E pd \in InputsSelection :
        /\ clock + 1 <= MaxClock
        /\ plan(pd, 1)

SpecSelection == InitSelection /\ [][NextSelection]_vars

\* the candidates plan_stop iterated in the call that has just returned
closest_of_cycle == get_closest_stop_obstacles(result.stop_obstacles)

\* the candidate stop distance of a candidate, or nothing when it is abandoned
candidate_distance(pd, stop_obstacle, c) ==
    calc_candidate_zero_vel_dist(
        pd, stop_obstacle, dist_to_collide_on_ref_traj(pd, stop_obstacle),
        calc_desired_stop_margin(pd, stop_obstacle,
                                 dist_to_collide_on_ref_traj(pd, stop_obstacle), c), c)

\* the positions of the candidates that are not abandoned
not_abandoned ==
    {i \in 1..Len(closest_of_cycle) :
        HasValue(candidate_distance(planner_data, closest_of_cycle[i], cfg))}

\* C20: the candidates of plan_stop have pairwise distinct labels; the
\* determined obstacle is a candidate of the minimum candidate stop distance
\* among those that are not abandoned, the last such candidate of the list;
\* no obstacle is determined exactly when every candidate is abandoned.
C20_DeterminedIsLastMinimum ==
    pc = "returned" =>
        /\ \A i, j \in 1..Len(closest_of_cycle) :
               closest_of_cycle[i].label = closest_of_cycle[j].label => i = j
        /\ HasValue(result.determined) <=> not_abandoned # {}
        /\ HasValue(result.determined) =>
               \E i \in not_abandoned :
                   /\ Value(result.determined).stop_obstacle = closest_of_cycle[i]
                   /\ Value(result.determined).zero_vel_dist
                          = Value(candidate_distance(planner_data, closest_of_cycle[i], cfg))
                   /\ \A j \in not_abandoned :
                          LET d == Value(candidate_distance(planner_data, closest_of_cycle[j], cfg))
                          IN  /\ Value(result.determined).zero_vel_dist <= d
                              /\ Value(result.determined).zero_vel_dist = d => j <= i

\* C20 reached: two candidates of different labels at the same candidate
\* distance, behind an abandoned one; the later of the two is determined
C20_Witness ==
    /\ pc = "returned"
    /\ Len(closest_of_cycle) = 3
    /\ Cardinality(not_abandoned) = 2
    /\ HasValue(result.determined)
    /\ \A j \in not_abandoned :
           Value(candidate_distance(planner_data, closest_of_cycle[j], cfg))
               = Value(result.determined).zero_vel_dist
    /\ Value(result.determined).stop_obstacle = closest_of_cycle[3]

-----------------------------------------------------------------------------
\* The skip condition of the selection loop as a function of its operands:
\* the candidate, its candidate stop distance, and the obstacle determined so
\* far.  (In plan_stop the operands come from get_closest_stop_obstacles,
\* whose candidates have distinct labels; here the labels are free.)
StopObstaclesSkip ==
    {StopObstacle(UuidA, 0, label, 0, [s |-> dist, y |-> 0], dist, braking_dist) :
        label \in {"CAR", "PEDESTRIAN"}, dist \in {50, 100, 150},
        braking_dist \in {None, Some(50), Some(100)}}

\* the triple plan_stop holds for a determined obstacle, stop_margin away
\* from the collision
determined_for(stop_obstacle, c) ==
    [ stop_obstacle |-> stop_obstacle,
      zero_vel_dist |-> Max(0, dist_with_braking(stop_obstacle) - c.stop_margin),
      desired_stop_margin |-> c.stop_margin ]

evaluate_skips_candidate(stop_obstacle, determined_stop_obstacle) ==
    /\ pc = "returned"
    /\ result' = [ stop_obstacle |-> stop_obstacle,
                   candidate_zero_vel_dist |-> determined_for(stop_obstacle, cfg).zero_vel_dist,
                   determined |-> determined_for(determined_stop_obstacle, cfg),
                   skipped |-> skips_candidate(
                                   stop_obstacle,
                                   determined_for(stop_obstacle, cfg).zero_vel_dist,
                                   determined_for(determined_stop_obstacle, cfg)) ]
    /\ UNCHANGED <<cfg, clock, planner_data, prev_stop_obstacles_,
                   prev_closest_stop_obstacles_, stop_pointcloud_obstacle_history_,
                   prev_stop_distance_info_, path_length_buffer_, pc, call>>

InitSkip == InitWith({BaseConfig})

NextSkip ==
    \E stop_obstacle \in StopObstaclesSkip, determined_stop_obstacle \in StopObstaclesSkip :
        evaluate_skips_candidate(stop_obstacle, determined_stop_obstacle)

SpecSkip == InitSkip /\ [][NextSkip]_vars

-----------------------------------------------------------------------------
\* Re-admission from cycle to cycle: two objects of one classification, at
\* equal and at different distances, picked as fixed or as RSS stops, that
\* keep or lose their collision point, or vanish.
ReadmissionConfig == ConsistencyConfig(TRUE)

ObjectsReadmission ==
    LET as == {Object(UuidA, "CAR", v, v, gate, d) :
                   v \in {0, 40}, gate \in {"collide", "none"}, d \in {150, 190}}
        bs == {Object(UuidB, "CAR", 0, 0, gate, 150) : gate \in {"collide", "none"}}
               \cup {Object(UuidB, "PEDESTRIAN", 0, 0, "collide", 250)}
    IN  {<<>>}
        \cup {<<a>> : a \in as}
        \cup {<<a, b>> : a \in as, b \in bs}
        \cup {<<b, a>> : a \in as, b \in bs}

InputsReadmission ==
    {PlannerData(0, 10, 10, Traj(0, 400, 0, None), objects, <<>>) :
        objects \in ObjectsReadmission}

InitReadmission == InitWith({ReadmissionConfig})

NextReadmission ==
    \E pd \in InputsReadmission, dt \in {0, 1} :
        /\ clock + dt <= MaxClock
        /\ plan(pd, dt)

SpecReadmission == InitReadmission /\ [][NextReadmission]_vars

\* the positions of the list that hold an obstacle of the label
positions_of_label(stop_obstacles, label) ==
    {i \in 1..Len(stop_obstacles) : stop_obstacles[i].label = label}

\* the obstacle at position k is the first of the minimum distance to
\* collision plus braking distance among those of its label
is_first_minimum(stop_obstacles, k) ==
    \A j \in positions_of_label(stop_obstacles, stop_obstacles[k].label) :
        /\ dist_with_braking(stop_obstacles[k]) <= dist_with_braking(stop_obstacles[j])
        /\ dist_with_braking(stop_obstacles[k]) = dist_with_braking(stop_obstacles[j]) => k <= j

\* `closest` is the closest-per-classification reduction of `stop_obstacles`
is_closest_reduction(closest, stop_obstacles) ==
    /\ {closest[i].label : i \in 1..Len(closest)}
           = {stop_obstacles[i].label : i \in 1..Len(stop_obstacles)}
    /\ \A i, j \in 1..Len(closest) : closest[i].label = closest[j].label => i = j
    /\ \A i \in 1..Len(closest) :
           \E k \in 1..Len(stop_obstacles) :
               /\ closest[i] = stop_obstacles[k]
               /\ is_first_minimum(stop_obstacles, k)

\* C21: get_closest_stop_obstacles returns one candidate for each label of its
\* input and none for another label, the first candidate of the minimum
\* distance to collision plus braking distance (0 when absent) of the label;
\* the list stored for the next cycle is the reduction of the candidate list
\* after re-admission, and the obstacles the next cycle re-admits come from it.
C21_ClosestPerLabel ==
    [][PlanReturns =>
          /\ is_closest_reduction(prev_closest_stop_obstacles_', prev_stop_obstacles_')
          /\ is_closest_reduction(get_closest_stop_obstacles(result'.stop_obstacles),
                                  result'.stop_obstacles)
          /\ \A so \in Range(prev_stop_obstacles_') :
                 so \notin Range(filtered_in_cycle) =>
                     so \in Range(prev_closest_stop_obstacles_)]_vars

\* C21 reached: two obstacles of one label at the same distance, the second a
\* re-admitted one; the reduction holds the first
C21_Witness ==
    /\ pc = "returned"
    /\ Len(prev_stop_obstacles_) = 2
    /\ prev_stop_obstacles_[1].label = prev_stop_obstacles_[2].label
    /\ dist_with_braking(prev_stop_obstacles_[1]) = dist_with_braking(prev_stop_obstacles_[2])
    /\ prev_stop_obstacles_[2].stamp < clock
    /\ prev_closest_stop_obstacles_ = <<prev_stop_obstacles_[1]>>
    /\ HasValue(result.stop_point)

-----------------------------------------------------------------------------
\* C22 as stated: a call of plan() that finds in the history an entry younger
\* than the hold time whose collision point is not within max_lat_margin of
\* the trajectory of the call (by the rough or by the precise test) returns,
\* has removed the entry from the history and does not output it.
C22_AgedOutWhenOutsideMargin ==
    [][pc = "returned" =>
          \A itr \in Range(stop_pointcloud_obstacle_history_) :
              (/\ ~history_is_old(itr, clock', cfg)
               /\ \/ ~within_lat_margin_rough(planner_data'.traj, itr.collision_point, cfg)
                  \/ ~within_lat_margin_precise(planner_data'.traj, itr.collision_point, cfg))
                  => /\ pc' = "returned"
                     /\ itr \notin Range(stop_pointcloud_obstacle_history_')
                     /\ ~is_output(itr, result')]_vars

-----------------------------------------------------------------------------
\* The gap between ego and obstacle at the moment the ego stands, when the
\* ego coasts at v_ego for T_coast and brakes at a_ego, and the obstacle
\* closes at |v_obs| for T_coast + v_ego / a_ego, as <<numerator, denominator>>
\* over the denominator 2 a_ego rel_vel of T_coast:
\*   gap = stop_margin - |v_obs| (T_coast + v_ego / a_ego)
gap_at_ego_stop(v_ego, v_obs, d, c) ==
    LET a_ego == c.effective_deceleration_opposing_traffic
        rel_vel == v_ego - v_obs
        num == 2 * a_ego * rel_vel * d
                   - v_ego * coast_numerator(v_ego, v_obs, d, c)
                   - v_ego * v_ego * rel_vel
                   - Abs(v_obs) * (coast_numerator(v_ego, v_obs, d, c) + 2 * v_ego * rel_vel)
        den == 2 * a_ego * rel_vel
    IN  IF den > 0 THEN <<num, den>> ELSE <<-num, -den>>

\* the oncoming branch was taken with a strictly positive coasting time
CoastingTimeIsPositive ==
    /\ HasValue(result.default_stop_margin)
    /\ planner_data.objects[1].velocity < cfg.max_negative_velocity
    /\ planner_data.v_ego # planner_data.objects[1].velocity
    /\ is_coasting(planner_data.v_ego, planner_data.objects[1].velocity,
                   planner_data.objects[1].collision, cfg)

\* C23 as stated: for an oncoming obstacle and a strictly positive coasting
\* time, the gap left at the moment of the ego's full stop is
\* stop_margin_opposing_traffic, and the margin returned is the distance minus
\* the ego's stopping distance (so margin minus what the obstacle travels is
\* that gap).
C23_GapIsOpposingTrafficMargin ==
    CoastingTimeIsPositive =>
        LET gap == gap_at_ego_stop(planner_data.v_ego, planner_data.objects[1].velocity,
                                   planner_data.objects[1].collision, cfg)
        IN  gap[1] = cfg.stop_margin_opposing_traffic * gap[2]

-----------------------------------------------------------------------------
\* The default stop margin as a function of the obstacle velocity (oncoming,
\* standing, or moving ahead as an RSS stop), the ego velocity (equal to the
\* obstacle's or not) and the collision point (before, at or beyond the end
\* of the trajectory).
InputsMarginPolicy ==
    {PlannerData(v_ego, 0, 0, Traj(0, len, 0, None),
                 <<Object(UuidA, "CAR", v_obs, v_obs, "collide", d)>>, <<>>) :
        v_ego \in {-20, 0, 20}, v_obs \in {-20, 0, 40},
        d \in {60, 150, 200}, len \in {150, 400}}

NextMarginPolicy == \E pd \in InputsMarginPolicy : evaluate_default_stop_margin(pd)

SpecMarginPolicy == InitMargin /\ [][NextMarginPolicy]_vars

\* the stop obstacle of the evaluation recorded in planner_data
evaluated_stop_obstacle ==
    Value(pick_stop_obstacle_from_predicted_object(
              planner_data, planner_data.objects[1], planner_data.stamp,
              prev_stop_obstacles_, cfg))

\* the collision point of the evaluated obstacle lies beyond the end of the
\* reference trajectory
is_beyond_trajectory_end ==
    dist_to_collide_on_ref_traj(planner_data, evaluated_stop_obstacle) > planner_data.traj.len

\* C24: the default stop margin is (1) for an obstacle velocity below
\* max_negative_velocity the oncoming formula, or the plain stop_margin when
\* the relative velocity is zero; (2) otherwise terminal_stop_margin when the
\* distance to collision on the reference trajectory exceeds the trajectory
\* length; (3) otherwise the plain stop_margin.  An oncoming obstacle beyond
\* the trajectory end is under (1).
C24_OrderedMarginPolicy ==
    HasValue(result.default_stop_margin) =>
        LET margin == Value(result.default_stop_margin)
            v_obs == evaluated_stop_obstacle.velocity
        IN  IF v_obs < cfg.max_negative_velocity
            THEN IF planner_data.v_ego = v_obs
                 THEN margin = <<cfg.stop_margin, 1>>
                 ELSE margin = oncoming_stop_margin(
                                   planner_data.v_ego, v_obs,
                                   evaluated_stop_obstacle.dist_to_collide_on_decimated_traj, cfg)
            ELSE IF is_beyond_trajectory_end
            THEN margin = <<cfg.terminal_stop_margin, 1>>
            ELSE margin = <<cfg.stop_margin, 1>>

\* C24 reached: an oncoming obstacle whose collision point lies beyond the
\* trajectory end, with a margin from the oncoming formula that is not
\* terminal_stop_margin
C24_Witness ==
    /\ HasValue(result.default_stop_margin)
    /\ evaluated_stop_obstacle.velocity < cfg.max_negative_velocity
    /\ planner_data.v_ego # evaluated_stop_obstacle.velocity
    /\ is_beyond_trajectory_end
    /\ Value(result.default_stop_margin)[1]
           # cfg.terminal_stop_margin * Value(result.default_stop_margin)[2]

-----------------------------------------------------------------------------
\* The stop margin on a curve: a standing obstacle and an oncoming obstacle
\* close to the ego, with every outcome of the search for the collision index
\* on the short trajectory, with enable_approaching_on_curve and
\* use_pointcloud on and off.
CurveConfig(enable_approaching_on_curve, use_pointcloud) ==
    [BaseConfig EXCEPT !.enable_approaching_on_curve = enable_approaching_on_curve,
                       !.use_pointcloud = use_pointcloud]

\* the outcomes of the geometry of calc_margin_from_obstacle_on_curve
CurvesCurve ==
    {NoCurve}
    \cup {[collision_idx |-> Some(idx), short_margin_from_obstacle |-> short] :
              idx \in {0, 3}, short \in {-5, 10, 15, 22, 60}}

ObjectsCurve ==
    {<<>>,
     <<Object(UuidA, "CAR", 0, 0, "collide", 190)>>,
     <<Object(UuidA, "CAR", -20, -20, "collide", 5)>>,
     <<Object(UuidA, "CAR", -20, -20, "collide", 190)>>}

InputsCurve ==
    {[PlannerData(0, 0, 0, Traj(0, 400, 0, None), objects, <<>>) EXCEPT !.curve = curve] :
        objects \in ObjectsCurve, curve \in CurvesCurve}

InitCurve ==
    InitWith({CurveConfig(enable, use_pointcloud) :
                  enable \in BOOLEAN, use_pointcloud \in BOOLEAN})

NextCurve ==
    \E pd \in InputsCurve :
        /\ clock + 1 <= MaxClock
        /\ plan(pd, 1)

SpecCurve == InitCurve /\ [][NextCurve]_vars

\* the margin calc_margin_from_obstacle_on_curve returned for the determined
\* obstacle of the cycle (no behavior stop point on the trajectory), and the
\* default margin it was given
margin_on_curve == Value(result.determined).desired_stop_margin

default_margin_of_cycle ==
    Quot(Value(result.default_stop_margin)[1], Value(result.default_stop_margin)[2])

\* C25 as stated: the margin returned is never larger than the default
\* margin; when it is smaller, it is not below min_stop_margin_on_curve; with
\* enable_approaching_on_curve off or use_pointcloud on it is the default
\* margin.
C25_OnlyShrinks ==
    (pc = "returned" /\ HasValue(result.determined)) =>
        /\ margin_on_curve <= default_margin_of_cycle
        /\ margin_on_curve < default_margin_of_cycle =>
               margin_on_curve >= cfg.min_stop_margin_on_curve
        /\ (~cfg.enable_approaching_on_curve \/ cfg.use_pointcloud) =>
               margin_on_curve = default_margin_of_cycle

-----------------------------------------------------------------------------
\* Hold-previous-stop: a standing obstacle at distances that differ by less
\* than, exactly and more than the hold distance, an ego around the hold
\* velocity threshold, a trajectory whose front advances or stays, an
\* obstacle beyond the end of the trajectory, and cycles without obstacle.
HoldConfig ==
    [BaseConfig EXCEPT !.use_pointcloud = FALSE,
                       !.hold_stop_velocity_threshold = 3,
                       !.hold_stop_distance_threshold = 3]

ObjectsHold ==
    {<<>>}
    \cup {<<Object(UuidA, "CAR", 0, 0, "collide", d)>> :
              d \in {185, 187, 190, 191, 192, 193, 194, 450}}

InputsHold ==
    {PlannerData(v_ego, 10, 10, Traj(front, 400, 0, None), objects, <<>>) :
        v_ego \in {-2, 0, 2, 3}, front \in {0, 5}, objects \in ObjectsHold}

InitHold == InitWith({HoldConfig})

NextHold ==
    \E pd \in InputsHold, dt \in {0, 1} :
        /\ clock + dt <= MaxClock
        /\ plan(pd, dt)

SpecHold == InitHold /\ [][NextHold]_vars

\* the previous stop distance on the trajectory of the cycle that has just
\* returned: the recorded distance minus the advance of the trajectory front
reprojected_previous ==
    Value(prev_stop_distance_info_).zero_vel_dist
        - (planner_data'.traj.front - Value(prev_stop_distance_info_).traj_front)

\* the cycle that has just returned ran with the ego under the hold velocity
\* and with a recorded previous stop distance
may_hold ==
    /\ Abs(planner_data'.v_ego) < cfg.hold_stop_velocity_threshold
    /\ HasValue(prev_stop_distance_info_)

\* C26: the distance inserted is the reprojected previous stop distance
\* exactly when the ego is under the hold velocity, a previous distance is
\* recorded and the two differ by less than the hold distance; otherwise it
\* is the newly determined distance.  When the stop point is inserted, it is
\* at that distance and that distance is recorded for the next cycle.
C26_HoldStepRule ==
    [][(PlanReturns /\ HasValue(result'.determined)) =>
          LET new == Value(result'.determined).zero_vel_dist
              inserted == Value(result'.held_zero_vel_dist)
          IN  /\ IF may_hold /\ Abs(reprojected_previous - new)
                                    < cfg.hold_stop_distance_threshold
                 THEN inserted = reprojected_previous
                 ELSE inserted = new
              /\ HasValue(result'.stop_point) =>
                     /\ Value(result'.stop_point).s = planner_data'.traj.front + inserted
                     /\ prev_stop_distance_info_'
                            = Some([traj_front |-> planner_data'.traj.front,
                                    zero_vel_dist |-> inserted])]_vars

\* C26 reached: the trajectory front has advanced and the previous stop
\* distance, reprojected, replaces a new distance that differs from it
C26_Witness ==
    /\ pc = "returned"
    /\ HasValue(result.determined)
    /\ HasValue(result.stop_point)
    /\ planner_data.traj.front = 5
    /\ Value(result.held_zero_vel_dist) # Value(result.determined).zero_vel_dist
    /\ Value(prev_stop_distance_info_).zero_vel_dist = Value(result.held_zero_vel_dist)
    /\ Value(result.stop_point).s = 5 + Value(result.held_zero_vel_dist)


\* the cycle that has just returned ran on the trajectory of the recorded
\* previous stop distance, with the ego under the hold velocity, and
\* determined a stop distance
holds_on_unchanged_trajectory ==
    /\ PlanReturns
    /\ may_hold
    /\ planner_data'.traj = planner_data.traj
    /\ planner_data'.traj.front = Value(prev_stop_distance_info_).traj_front
    /\ HasValue(result'.determined)

\* C27: on an unchanged trajectory with the ego under the hold velocity, a
\* cycle whose newly determined distance is within the hold distance of the
\* recorded distance inserts the recorded distance and leaves the record as
\* it was (so the record, and the inserted distance, are the same after any
\* number of such cycles); a cycle whose new distance differs from the
\* recorded one by the hold distance or more inserts and records the new one.
C27_NoDriftWhileHolding ==
    [][holds_on_unchanged_trajectory =>
          LET new == Value(result'.determined).zero_vel_dist
              recorded == Value(prev_stop_distance_info_).zero_vel_dist
          IN  IF Abs(recorded - new) < cfg.hold_stop_distance_threshold
              THEN /\ Value(result'.held_zero_vel_dist) = recorded
                   /\ HasValue(result'.stop_point) =>
                          prev_stop_distance_info_' = prev_stop_distance_info_
              ELSE /\ Value(result'.held_zero_vel_dist) = new
                   /\ HasValue(result'.stop_point) =>
                          Value(prev_stop_distance_info_').zero_vel_dist = new]_vars

\* C27 reached: a slowly moving ego on the trajectory of the record; the
\* obstacle is 0.2 m further than the recorded stop accounts for, and the
\* stop point stays where the record has it
C27_Witness ==
    /\ pc = "returned"
    /\ planner_data.v_ego = 2
    /\ HasValue(result.determined)
    /\ HasValue(result.stop_point)
    /\ HasValue(prev_stop_distance_info_)
    /\ planner_data.traj.front = Value(prev_stop_distance_info_).traj_front
    /\ Value(result.determined).zero_vel_dist
           = Value(prev_stop_distance_info_).zero_vel_dist + 2
    /\ Value(result.stop_point).s
           = planner_data.traj.front + Value(prev_stop_distance_info_).zero_vel_dist

-----------------------------------------------------------------------------
\* C28: every stop candidate of a cycle either passed the filter in the cycle
\* and carries its stamp, or is a candidate of the previous cycle, the
\* closest of its classification there, carried over as it was (so with the
\* stamp of the last cycle in which it passed the filter); no candidate is as
\* old as stop_obstacle_hold_time_threshold.  Hence an obstacle that is not a
\* candidate of a cycle is a candidate of a later one only by passing the
\* filter.
C28_ReadmissionIsBounded ==
    [][PlanReturns =>
          \A so \in Range(prev_stop_obstacles_') :
              /\ clock' - so.stamp < cfg.stop_obstacle_hold_time_threshold
              /\ IF so \in Range(filtered_in_cycle)
                 THEN so.stamp = clock'
                 ELSE /\ so \in Range(prev_stop_obstacles_)
                      /\ so \in Range(prev_closest_stop_obstacles_)
                      /\ \E object \in objects_with_uuid(planner_data', so.uuid) :
                             object.twist_x
                                 < cfg.obstacle_velocity_threshold_enter_fixed_stop]_vars

\* C28 reached: two objects of one classification have lost their collision
\* points; the one that was the closest is a candidate with the stamp of the
\* cycle before, the other is not a candidate
C28_Witness ==
    /\ pc = "returned"
    /\ Len(planner_data.objects) = 2
    /\ \A i \in 1..2 : planner_data.objects[i].gate = "none"
    /\ planner_data.objects[1].label = planner_data.objects[2].label
    /\ Len(prev_stop_obstacles_) = 1
    /\ prev_stop_obstacles_[1].stamp = clock - 1
    /\ prev_stop_obstacles_[1].uuid \in {planner_data.objects[i].uuid : i \in 1..2}

-----------------------------------------------------------------------------
\* Abandonment: a pedestrian (its own parameter set) around the distance that
\* judges suddenness, alone or with a car, for a standing, a moving and a
\* reversing ego, with suppress_sudden_stop and abandon_to_stop on and off.
AbandonConfig(suppress_sudden_stop, abandon_to_stop) ==
    [BaseConfig EXCEPT !.use_pointcloud = FALSE,
                       !.suppress_sudden_stop = suppress_sudden_stop,
                       !.abandon_to_stop = abandon_to_stop]

ObjectsAbandon ==
    LET as == {Object(UuidA, "PEDESTRIAN", 0, 0, "collide", d) : d \in {0, 17, 18, 32, 190}}
        bs == {Object(UuidB, "CAR", 0, 0, "collide", d) : d \in {0, 190}}
    IN  {<<>>}
        \cup {<<a>> : a \in as}
        \cup {<<a, b>> : a \in as, b \in bs}
        \cup {<<b, a>> : a \in as, b \in bs}

InputsAbandon ==
    {PlannerData(v_ego, 10, 10, Traj(0, 400, 0, None), objects, <<>>) :
        v_ego \in {-10, 0, 10, 20}, objects \in ObjectsAbandon}

InitAbandon ==
    InitWith({AbandonConfig(suppress, abandon) : suppress \in BOOLEAN, abandon \in BOOLEAN})

NextAbandon ==
    \E pd \in InputsAbandon :
        /\ clock + 1 <= MaxClock
        /\ plan(pd, 1)

SpecAbandon == InitAbandon /\ [][NextAbandon]_vars

\* the raw candidate distance of a candidate of the cycle
raw_candidate_of(pd, stop_obstacle, c) ==
    Max(0, dist_to_collide_on_ref_traj(pd, stop_obstacle)
               - calc_desired_stop_margin(pd, stop_obstacle,
                                          dist_to_collide_on_ref_traj(pd, stop_obstacle), c))

\* the conditions of the abandonment: 2 |a| raw <= v^2 states that the raw
\* distance is not greater than v^2 / (2 |a|), the minimum stopping distance
\* at the deceleration a = sudden_object_acc_threshold
is_sudden_and_given_up(pd, stop_obstacle, c) ==
    /\ c.suppress_sudden_stop
    /\ stop_obstacle.label \in c.specific_types
    /\ 2 * (-c.sudden_object_acc_threshold) * raw_candidate_of(pd, stop_obstacle, c)
           <= pd.v_ego * pd.v_ego
    /\ raw_candidate_of(pd, stop_obstacle, c) <= c.sudden_object_dist_threshold
    /\ c.abandon_to_stop

\* C29: a candidate is abandoned only under the four conditions, and under
\* them it is abandoned when the ego does not reverse; the cycle returns, the
\* abandoned candidate is not the determined obstacle, and an obstacle is
\* determined whenever a candidate is not abandoned.
C29_AbandonsOnlySuddenObstacle ==
    pc = "returned" =>
        /\ \A i \in 1..Len(closest_of_cycle) :
               LET stop_obstacle == closest_of_cycle[i]
                   abandoned == ~HasValue(candidate_distance(planner_data, stop_obstacle, cfg))
               IN  /\ abandoned => is_sudden_and_given_up(planner_data, stop_obstacle, cfg)
                   /\ (planner_data.v_ego >= 0
                          /\ is_sudden_and_given_up(planner_data, stop_obstacle, cfg))
                          => abandoned
                   /\ (abandoned /\ HasValue(result.determined)) =>
                          Value(result.determined).stop_obstacle # stop_obstacle
        /\ not_abandoned # {} => HasValue(result.determined)

\* C29 reached: the pedestrian, first of two candidates, is abandoned at the
\* distance that judges suddenness itself; the car behind it is determined
\* and the stop point is inserted
C29_Witness ==
    /\ pc = "returned"
    /\ Len(closest_of_cycle) = 2
    /\ not_abandoned = {2}
    /\ planner_data.v_ego > 0
    /\ 2 * (-cfg.sudden_object_acc_threshold)
           * raw_candidate_of(planner_data, closest_of_cycle[1], cfg)
       = planner_data.v_ego * planner_data.v_ego
    /\ HasValue(result.determined)
    /\ Value(result.determined).stop_obstacle = closest_of_cycle[2]
    /\ HasValue(result.stop_point)

-----------------------------------------------------------------------------
\* Cut-in: an object of a label that is in both type sets, in the inside set
\* only or in the outside set only, with and without a collision of its own
\* polygon, a lateral velocity around outside_max_lateral_velocity in both
\* directions, and a hull of the footprints that does not collide or collides
\* behind, at and ahead of the front bumper.
CutInConfig(outside_stop_object_types, use_rss_stop) ==
    [BaseConfig EXCEPT !.use_pointcloud = FALSE,
                       !.inside_stop_object_types = {"CAR", "PEDESTRIAN"},
                       !.outside_stop_object_types = outside_stop_object_types,
                       !.use_rss_stop = use_rss_stop]

HullsCutIn ==
    {None} \cup {Some([point |-> [s |-> dist, y |-> 0], dist |-> dist]) : dist \in {-1, 0, 120}}

ObjectsCutIn ==
    LET cut_in(object, lat_vel, hull) == [object EXCEPT !.lat_vel = lat_vel, !.hull = hull]
        near == {cut_in(Object(UuidA, label, velocity, 0, gate, 150), lat_vel, hull) :
                    label \in {"CAR", "PEDESTRIAN", "BICYCLE"}, velocity \in {0, 40},
                    gate \in {"collide", "none"},
                    lat_vel \in {-51, 0, 50, 51}, hull \in HullsCutIn}
        far == {cut_in(Object(UuidA, label, 0, 0, "far", 150), 0, hull) :
                   label \in {"CAR", "PEDESTRIAN", "BICYCLE"}, hull \in HullsCutIn}
        as == {a \in near : a.label = "CAR" /\ a.velocity = 0 /\ a.lat_vel = 0}
        bs == {cut_in(Object(UuidB, "CAR", 0, 0, gate, 190), 0,
                      Some([point |-> [s |-> 190, y |-> 0], dist |-> 190])) :
                  gate \in {"none", "behind"}}
    IN  {<<>>} \cup {<<a>> : a \in near \cup far} \cup {<<a, b>> : a \in as, b \in bs}

InputsCutIn ==
    {PlannerData(10, 10, 10, Traj(0, 400, 0, None), objects, <<>>) : objects \in ObjectsCutIn}

InitCutIn ==
    InitWith({CutInConfig(outside, use_rss_stop) :
                 outside \in {{"CAR", "BICYCLE"}, {}}, use_rss_stop \in BOOLEAN})

NextCutIn ==
    \E pd \in InputsCutIn :
        /\ clock + 1 <= MaxClock
        /\ plan(pd, 1)

SpecCutIn == InitCutIn /\ [][NextCutIn]_vars

\* the stop obstacles of the result that the filter picked in the cycle for
\* the uuid: a re-admitted obstacle keeps the stamp of an earlier cycle
emitted_in_cycle(res, uuid, stamp) ==
    {so \in Range(res.stop_obstacles) : so.uuid = uuid /\ so.stamp = stamp}

\* steps 5 and later emit the object
later_steps_emit(pd, object, prev_stop_obstacles, c) ==
    /\ ~(c.ignore_crossing_obstacle
           /\ is_crossing_transient_obstacle(
                  pd, object, calc_dist_to_bumper(pd.is_driving_forward, c), c))
    /\ \/ is_obstacle_velocity_requiring_fixed_stop(object, prev_stop_obstacles, c)
       \/ c.use_rss_stop

\* C30: for an object that passes the label gate and the lateral filter and
\* whose label is in outside_stop_object_types, a collision of the object's
\* own polygon is the one emitted and the hull is not consulted; without one
\* the object is discarded when its lateral speed exceeds
\* outside_max_lateral_velocity or when the hull does not collide or collides
\* at a negative distance, and is otherwise emitted with the collision of the
\* hull exactly when the later steps emit it.  An object without a collision
\* of its own polygon whose label is not in the set is discarded.
C30_CutInHandling ==
    [][PlanReturns =>
          \A i \in 1..Len(planner_data'.objects) :
              LET object == planner_data'.objects[i]
                  emitted == emitted_in_cycle(result', object.uuid, clock')
                  inside_check_ran ==
                      /\ ~(object.lon_dist_from_ego < 0)
                      /\ object.label \in cfg.inside_stop_object_types
                      /\ object.gate # "far"
                  discarded_by_cut_in ==
                      \/ Abs(object.lat_vel) > cfg.outside_max_lateral_velocity
                      \/ ~HasValue(object.hull)
                      \/ Value(object.hull).dist < 0
              IN  /\ ~inside_check_ran => emitted = {}
                  /\ (inside_check_ran /\ object.gate = "collide") =>
                         /\ \A so \in emitted :
                                /\ so.collision_point = object.collision_point
                                /\ so.dist_to_collide_on_decimated_traj = object.collision
                         /\ emitted # {} <=>
                                later_steps_emit(planner_data', object, prev_stop_obstacles_, cfg)
                  /\ (inside_check_ran /\ object.gate = "none"
                          /\ object.label \notin cfg.outside_stop_object_types) =>
                         emitted = {}
                  /\ (inside_check_ran /\ object.gate = "none"
                          /\ object.label \in cfg.outside_stop_object_types) =>
                         IF discarded_by_cut_in THEN emitted = {}
                         ELSE /\ \A so \in emitted :
                                     /\ so.collision_point = Value(object.hull).point
                                     /\ so.dist_to_collide_on_decimated_traj
                                            = Value(object.hull).dist
                              /\ emitted # {} <=>
                                     later_steps_emit(planner_data', object,
                                                      prev_stop_obstacles_, cfg)
    ]_vars

\* C30 reached: a car without a collision of its own polygon moves sideways
\* at outside_max_lateral_velocity itself, the hull of its footprints
\* collides at the front bumper (distance 0), and it is emitted with the
\* collision of the hull
C30_Witness ==
    /\ pc = "returned"
    /\ Len(planner_data.objects) = 1
    /\ planner_data.objects[1].label \in cfg.outside_stop_object_types
    /\ planner_data.objects[1].gate = "none"
    /\ Abs(planner_data.objects[1].lat_vel) = cfg.outside_max_lateral_velocity
    /\ HasValue(planner_data.objects[1].hull)
    /\ Value(planner_data.objects[1].hull).dist = 0
    /\ \E so \in emitted_in_cycle(result, planner_data.objects[1].uuid, clock) :
           /\ so.collision_point = Value(planner_data.objects[1].hull).point
           /\ so.dist_to_collide_on_decimated_traj = 0

====
